---- MODULE Spec2Model ----
(***************************************************************************)
(* One 9P2000 session of go-9pserver (main.go: session) served by the      *)
(* local filesystem provider (server.go: localFilesystem, localFile).      *)
(*                                                                         *)
(* Paths are sequences of path components: "/" is <<>>, "/a/b" is          *)
(* <<"a","b">>.  A File reference in the fid table is an index into        *)
(* `files` (0 is Go's nil).  A Qid carries the key handed to the qid-path  *)
(* registry in place of the number the registry assigns to that key.       *)
(***************************************************************************)
EXTENDS Integers, Sequences, FiniteSets, TLC

VARIABLES
    basePath,         \* localFilesystem.basePath
    osfs,             \* the operating system's file tree: OS path -> "dir" | "file"
    receivedVersion,  \* session.receivedVersion
    maxsize,          \* session.maxsize
    fids,             \* session.fids: fid -> [path, file]
    files,            \* every localFile handed to the session, in order of creation
    pc,               \* position of session.loop
    req,              \* the message decoded in the current iteration of the loop
    path,             \* handleRemove's local `path` while the handler is running
    herr,             \* the error the handler returned to handleNextMsg
    err,              \* session.loop's `err`
    out,              \* the replies written to the connection for req
    qidMutex,         \* localFilesystem.qidMutex: the caller that holds it, 0 when free
    qidCounter,       \* localFilesystem.qidCounter
    qidMap,           \* localFilesystem.qidMap
    qcall,            \* each goroutine's call of qidPath: position, argument, locals
    qidReturned,      \* every <<argument, result>> a call of qidPath has returned
    sessions,         \* the session of every accepted connection, as its goroutine left it
    tables,           \* the fid maps made by newSession; session.fids refers to one
    cur,              \* the session whose goroutine is running
    cpc,              \* the codec's caller: idle, decode, encode, encoded
    cin,              \* the stream handed to DeserializeMessage
    cread,            \* the number of bytes DeserializeMessage has taken from cin
    cgot,             \* what each call of DeserializeMessage on cin came to
    cmsg,             \* the value handed to SerializeMessage
    cout,             \* the bytes SerializeMessage wrote to w
    cerr,             \* the error SerializeMessage returned
    ccall             \* each goroutine's run of handleCreate: position, arguments, outcome

sessionVars == <<basePath, osfs, receivedVersion, maxsize, fids, files, pc, req, path,
                 herr, err, out>>

registryVars == <<qidMutex, qidCounter, qidMap, qcall, qidReturned>>

serverVars == <<sessions, tables, cur>>

\* the state outside the session whose loop is running
codecVars == <<cpc, cin, cread, cgot, cmsg, cout, cerr>>

createVars == <<ccall>>

elsewhere == <<registryVars, serverVars, codecVars, createVars>>

outsideRegistry == <<sessionVars, serverVars, codecVars, createVars>>

outsideCodec == <<sessionVars, registryVars, serverVars, createVars>>

vars == <<sessionVars, elsewhere>>

----------------------------------------------------------------------------
\* Bounds of the model.
MaxTag == 1
MaxFid == 1
MaxHandles == 1
MaxCloseCalls == 2
MaxDepth == 2
MaxWalk == 2
MaxCallers == 2
MaxSessions == 2

\* Program constants.
MaximumMsgSize == 8192
\* DMDIR >> 24: a 32-bit perm or mode word is kept as its top byte, the byte
\* that holds DMDIR (0x80000000 exceeds the model checker's integers)
DMDIR == 128
OREAD == 0
OWRITE == 1
ORDWR == 2
OTRUNC == 16

ProtocolVersion == "9P2000"

ENoAuthRequiredStr == "no authentication required"
EIOErrorStr == "i/o error"
ENoSuchFileOrDirectoryStr == "file does not exist"
EBadMessageStr == "protocol botch"
EAlreadyExistsStr == "file or directory already exists"
EDirNotEmptyStr == "directory is not empty"

Tags == 0..MaxTag
Fids == 0..MaxFid
Names == {"a", ".."}
Msizes == {4096, 8192, 16384, 2147483647}
Versions == {ProtocolVersion, "9P.u"}
Perms == {0, DMDIR}
Modes == {OREAD, OWRITE, ORDWR}
BasePaths == {<<>>, <<"s">>, <<"t">>}

min(a, b) == IF a < b THEN a ELSE b

\* bit `b` (a power of two) of the unsigned integer n
HasBit(n, b) == (n \div b) % 2 = 1

RECURSIVE SeqsUpTo(_, _)
SeqsUpTo(S, n) ==
    IF n = 0 THEN {<<>>}
    ELSE LET shorter == SeqsUpTo(S, n - 1)
         IN  shorter \cup {Append(s, x) : s \in shorter, x \in S}

----------------------------------------------------------------------------
\* path.Join and the operating system's file tree.

\* p.Join(dir, name) for a rooted, clean dir and a single component
pJoin(dir, name) ==
    IF name = ".." THEN (IF dir = <<>> THEN <<>> ELSE SubSeq(dir, 1, Len(dir) - 1))
    ELSE IF name = "." \/ name = "" THEN dir
    ELSE Append(dir, name)

normalizePath(p) == basePath \o p

IsPrefix(p, q) == Len(p) <= Len(q) /\ SubSeq(q, 1, Len(p)) = p

Parent(p) == SubSeq(p, 1, Len(p) - 1)

\* os.Stat: nil, ENOENT, or ENOTDIR when a component of the path is a regular file
osStat(fs, p) ==
    IF p \in DOMAIN fs THEN [errno |-> "nil", isDir |-> fs[p] = "dir"]
    ELSE IF \E q \in DOMAIN fs : q # p /\ IsPrefix(q, p) /\ fs[q] = "file"
         THEN [errno |-> "ENOTDIR", isDir |-> FALSE]
         ELSE [errno |-> "ENOENT", isDir |-> FALSE]

HasChildren(fs, p) == \E q \in DOMAIN fs : Len(q) = Len(p) + 1 /\ IsPrefix(p, q)

osAdd(fs, p, kind) == [q \in DOMAIN fs \cup {p} |-> IF q = p THEN kind ELSE fs[q]]

osDel(fs, p) == [q \in DOMAIN fs \ {p} |-> fs[q]]

----------------------------------------------------------------------------
\* The local filesystem provider.

qidFtype(isDir) == IF isDir THEN DMDIR ELSE 0

NoQid == [ftype |-> 0, path |-> <<>>]

NoFile == [isDir |-> FALSE, flag |-> "O_RDONLY", trunc |-> FALSE, qidPath |-> <<>>,
           closeCalls |-> 0]

\* modeToFlag[mode|ORDWR]: a key missing from the map reads as 0, os.O_RDONLY
modeToFlag(mode) ==
    LET key == IF HasBit(mode, ORDWR) THEN mode ELSE mode + ORDWR
    IN  IF key = OREAD THEN "O_RDONLY"
        ELSE IF key = OWRITE THEN "O_WRONLY"
        ELSE IF key = ORDWR THEN "O_RDWR"
        ELSE "O_RDONLY"

\* localFilesystem.Open: the error and the localFile it returns
Open(fs, p, mode) ==
    LET st == osStat(fs, normalizePath(p))
    IN  IF st.errno = "ENOENT" THEN [err |-> "ErrDoesNotExist", file |-> NoFile]
        ELSE IF st.errno # "nil" THEN [err |-> "ErrIOError", file |-> NoFile]
        ELSE IF st.isDir
             THEN [err |-> "nil",
                   file |-> [isDir |-> TRUE, flag |-> "O_RDONLY", trunc |-> FALSE,
                             qidPath |-> p, closeCalls |-> 0]]
             ELSE [err |-> "nil",
                   file |-> [isDir |-> FALSE, flag |-> modeToFlag(mode),
                             trunc |-> HasBit(mode, OTRUNC),
                             qidPath |-> p, closeCalls |-> 0]]

\* localFile.Qid
Qid(f) == [ftype |-> qidFtype(f.isDir), path |-> f.qidPath]

\* localFilesystem.Stat: opens the normalized path, stats the handle, closes it
Stat(fs, p) ==
    LET o == Open(fs, normalizePath(p), OREAD)
    IN  IF o.err # "nil" THEN [err |-> o.err, qid |-> NoQid]
        ELSE [err |-> "nil", qid |-> Qid(o.file)]

\* localFilesystem.CreateDir / CreateFile: the error and the file tree afterwards
Create(fs, p, kind) ==
    LET full == normalizePath(p)
    IN  IF osStat(fs, full).errno # "ENOENT"
        THEN [err |-> "ErrAlreadyExists", osfs |-> fs]
        ELSE IF full # <<>> /\ Parent(full) \in DOMAIN fs /\ fs[Parent(full)] = "dir"
             THEN [err |-> "nil", osfs |-> osAdd(fs, full, kind)]
             ELSE [err |-> "ErrIOError", osfs |-> fs]

CreateDir(fs, p) == Create(fs, p, "dir")

CreateFile(fs, p) == Create(fs, p, "file")

\* os.Mkdir: EEXIST when the path exists, ENOENT when its parent is no directory
osMkdir(fs, full) ==
    IF full \in DOMAIN fs THEN [errno |-> "EEXIST", fs |-> fs, truncated |-> FALSE]
    ELSE IF full # <<>> /\ Parent(full) \in DOMAIN fs /\ fs[Parent(full)] = "dir"
         THEN [errno |-> "nil", fs |-> osAdd(fs, full, "dir"), truncated |-> FALSE]
         ELSE [errno |-> "ENOENT", fs |-> fs, truncated |-> FALSE]

\* os.Create, OpenFile(name, O_RDWR|O_CREATE|O_TRUNC, 0666): a regular file
\* that exists is opened and truncated, a directory gives EISDIR
osCreate(fs, full) ==
    IF full \in DOMAIN fs
    THEN IF fs[full] = "dir" THEN [errno |-> "EISDIR", fs |-> fs, truncated |-> FALSE]
         ELSE [errno |-> "nil", fs |-> fs, truncated |-> TRUE]
    ELSE IF full # <<>> /\ Parent(full) \in DOMAIN fs /\ fs[Parent(full)] = "dir"
         THEN [errno |-> "nil", fs |-> osAdd(fs, full, "file"), truncated |-> FALSE]
         ELSE [errno |-> "ENOENT", fs |-> fs, truncated |-> FALSE]

\* a goroutine that is not running handleCreate
NoCreate == [pc |-> "idle", path |-> <<>>, isDir |-> FALSE, err |-> "nil",
             truncated |-> FALSE]

\* the file names of the model in the order os.ReadDir returns them: sorted
SortedNames == <<"a", "s">>

\* localFilesystem.ReadDir: the error and, of every entry of the directory in
\* os.ReadDir's order, the name and the Qid of its Stat
ReadDir(fs, p) ==
    LET full == normalizePath(p)
        st == osStat(fs, full)
        InDir(n) == Append(full, n) \in DOMAIN fs
        names == SelectSeq(SortedNames, InDir)
    IN  IF st.errno = "nil" /\ st.isDir
        THEN [err |-> "nil",
              stats |-> [i \in 1..Len(names) |->
                           [name |-> names[i],
                            qid |-> [ftype |-> qidFtype(fs[Append(full, names[i])] = "dir"),
                                     path |-> pJoin(p, names[i])]]]]
        ELSE [err |-> "ErrIOError", stats |-> <<>>]

\* localFilesystem.Remove
Remove(fs, p) ==
    LET full == normalizePath(p)
    IN  IF full = <<>> \/ full \notin DOMAIN fs
        THEN [err |-> "ErrIOError", osfs |-> fs]
        ELSE IF fs[full] = "dir" /\ HasChildren(fs, full)
             THEN [err |-> "ErrDirectoryNotEmpty", osfs |-> fs]
             ELSE [err |-> "nil", osfs |-> osDel(fs, full)]

\* what the session keeps of a localFile: the fields that are read again after
\* the reply to Topen or Tcreate is built (qidPath and isRoot are not)
Handle(f) == [isDir |-> f.isDir, flag |-> f.flag, closeCalls |-> f.closeCalls]

\* localFile.Close: a count of the calls, saturating at MaxCloseCalls
Close(fl, h) ==
    [fl EXCEPT ![h].closeCalls = min(@ + 1, MaxCloseCalls)]

\* the operating-system file of localFile h is open
osFileOpen(fl, h) == ~fl[h].isDir /\ fl[h].closeCalls = 0

\* localFile.Read: os.File.ReadAt fails on a closed or write-only file; the
\* regular files of the model are empty, so a read that succeeds returns no bytes
Read(fl, h) ==
    IF osFileOpen(fl, h) /\ fl[h].flag \in {"O_RDONLY", "O_RDWR"}
    THEN "nil" ELSE "ErrIOError"

\* localFile.Write: os.File.WriteAt fails on a nil, closed or read-only file
Write(fl, h) ==
    IF osFileOpen(fl, h) /\ fl[h].flag \in {"O_WRONLY", "O_RDWR"}
    THEN "nil" ELSE "ErrIOError"

----------------------------------------------------------------------------
\* The qid-path registry of the provider, called from the goroutines of the
\* sessions.  A call of qidPath is a sequence of steps of its goroutine.

Callers == 1..MaxCallers

\* the arguments qidPath is called with
QidKeys == {<<>>, <<"a">>, <<"a", "a">>}

NoCall == [pc |-> "idle", path |-> <<>>, qidPath |-> 0, ret |-> 0]

\* a goroutine enters qidPath(path)
qidPathCall(c, p) ==
    /\ qcall[c].pc = "idle"
    /\ qcall' = [qcall EXCEPT ![c] = [NoCall EXCEPT !.pc = "lock", !.path = p]]
    /\ UNCHANGED <<qidMutex, qidCounter, qidMap, qidReturned>>

\* f.qidMutex.Lock() that does not wait for the mutex
qidMutexLock_NoWait(c) ==
    /\ qcall[c].pc = "lock"
    /\ qidMutex' = c
    /\ qcall' = [qcall EXCEPT ![c].pc = "lookup"]
    /\ UNCHANGED <<qidCounter, qidMap, qidReturned>>

\* f.qidMutex.Lock()
qidMutexLock(c) ==
    /\ qcall[c].pc = "lock"
    /\ qidMutex = 0
    /\ qidMutex' = c
    /\ qcall' = [qcall EXCEPT ![c].pc = "lookup"]
    /\ UNCHANGED <<qidCounter, qidMap, qidReturned>>

\* qidPath, ok := f.qidMap[path]; if ok { return qidPath }
qidPathLookup(c) ==
    /\ qcall[c].pc = "lookup"
    /\ LET p == qcall[c].path
       IN  IF p \in DOMAIN qidMap
           THEN qcall' = [qcall EXCEPT ![c].pc = "unlock", ![c].qidPath = qidMap[p],
                                       ![c].ret = qidMap[p]]
           ELSE qcall' = [qcall EXCEPT ![c].pc = "insert"]
    /\ UNCHANGED <<qidMutex, qidCounter, qidMap, qidReturned>>

\* f.qidMap[path] = f.qidCounter
qidPathInsert(c) ==
    /\ qcall[c].pc = "insert"
    /\ qidMap' = [k \in DOMAIN qidMap \cup {qcall[c].path} |->
                    IF k = qcall[c].path THEN qidCounter ELSE qidMap[k]]
    /\ qcall' = [qcall EXCEPT ![c].pc = "increment"]
    /\ UNCHANGED <<qidMutex, qidCounter, qidReturned>>

\* f.qidCounter += 1
qidPathIncrement(c) ==
    /\ qcall[c].pc = "increment"
    /\ qidCounter' = qidCounter + 1
    /\ qcall' = [qcall EXCEPT ![c].pc = "readback"]
    /\ UNCHANGED <<qidMutex, qidMap, qidReturned>>

\* return f.qidMap[path]
qidPathReadBack(c) ==
    /\ qcall[c].pc = "readback"
    /\ qcall' = [qcall EXCEPT ![c].pc = "unlock", ![c].ret = qidMap[qcall[c].path]]
    /\ UNCHANGED <<qidMutex, qidCounter, qidMap, qidReturned>>

\* the deferred f.qidMutex.Unlock(), and the return to the caller
qidMutexUnlock(c) ==
    /\ qcall[c].pc = "unlock"
    /\ qidMutex' = 0
    /\ qidReturned' = qidReturned \cup {<<qcall[c].path, qcall[c].ret>>}
    /\ qcall' = [qcall EXCEPT ![c] = NoCall]
    /\ UNCHANGED <<qidCounter, qidMap>>

----------------------------------------------------------------------------
\* The wire codec (messages.go).  A byte is a number in 0..255, a string or a
\* []byte the sequence of its bytes, a struct the sequence of its field values
\* in declaration order, and a message <<type, fields>>: the name of its struct
\* and that sequence.  Field values stay below 2^31.

TypeOf(value) == value[1]

FieldsOf(value) == value[2]

Uints == {"uint8", "uint16", "uint32", "uint64"}

\* the size in bytes of an unsigned integer type
Width(kind) ==
    CASE kind = "uint8" -> 1 [] kind = "uint16" -> 2 [] kind = "uint32" -> 4
      [] kind = "uint64" -> 8

\* the message type numbers
MessageType ==
    [Tversion |-> 100, Rversion |-> 101, Tauth |-> 102, Rauth |-> 103, Tattach |-> 104,
     Rattach |-> 105, Rerror |-> 107, Tflush |-> 108, Rflush |-> 109, Twalk |-> 110,
     Rwalk |-> 111, Topen |-> 112, Ropen |-> 113, Tcreate |-> 114, Rcreate |-> 115,
     Tread |-> 116, Rread |-> 117, Twrite |-> 118, Rwrite |-> 119, Tclunk |-> 120,
     Rclunk |-> 121, Tremove |-> 122, Rremove |-> 123, Tstat |-> 124, Rstat |-> 125,
     Twstat |-> 126, Rwstat |-> 127]

\* Twrite and Twstat as session.handleWrite and session.handleWstat use them
TwriteFields == <<"uint16", "uint32", "uint64", "[]byte">>

TwstatFields == <<"uint16", "uint32", "Stat">>

\* the field types of each struct, in declaration order
Fields(t) ==
    CASE t = "Qid" -> <<"uint8", "uint32", "uint64">>
      [] t = "Stat" -> <<"uint16", "uint32", "Qid", "uint32", "uint32", "uint32", "uint64",
                         "string", "string", "string", "string">>
      [] t = "Tauth" -> <<"uint16", "uint32", "string", "string">>
      [] t = "Rauth" -> <<"uint16", "Qid">>
      [] t = "Tattach" -> <<"uint16", "uint32", "uint32", "string", "string">>
      [] t = "Rattach" -> <<"uint16", "Qid">>
      [] t = "Tclunk" -> <<"uint16", "uint32">>
      [] t = "Rclunk" -> <<"uint16">>
      [] t = "Tflush" -> <<"uint16", "uint16">>
      [] t = "Rflush" -> <<"uint16">>
      [] t = "Topen" -> <<"uint16", "uint32", "uint8">>
      [] t = "Ropen" -> <<"uint16", "Qid", "uint32">>
      [] t = "Tcreate" -> <<"uint16", "uint32", "string", "uint32", "uint8">>
      [] t = "Rcreate" -> <<"uint16", "Qid", "uint32">>
      [] t = "Tread" -> <<"uint16", "uint32", "uint64", "uint32">>
      [] t = "Rread" -> <<"uint16", "[]byte">>
      [] t = "Twrite" -> TwriteFields
      [] t = "Rwrite" -> <<"uint16", "uint32">>
      [] t = "Tremove" -> <<"uint16", "uint32">>
      [] t = "Rremove" -> <<"uint16">>
      [] t = "Tstat" -> <<"uint16", "uint32">>
      [] t = "Rstat" -> <<"uint16", "Stat">>
      [] t = "Twstat" -> TwstatFields
      [] t = "Rwstat" -> <<"uint16">>
      [] t = "Tversion" -> <<"uint16", "uint32", "string">>
      [] t = "Rversion" -> <<"uint16", "uint32", "string">>
      [] t = "Twalk" -> <<"uint16", "uint32", "uint32", "[]string">>
      [] t = "Rwalk" -> <<"uint16", "[]Qid">>
      [] t = "Rerror" -> <<"uint16", "string">>

\* writeUint[K]: the w bytes of v, least significant first
RECURSIVE writeUint(_, _)
writeUint(v, w) == IF w = 0 THEN <<>> ELSE <<v % 256>> \o writeUint(v \div 256, w - 1)

\* writeString: uint16(len(bytes)), then the bytes
writeString(str) == writeUint(Len(str) % 65536, 2) \o str

\* serializeMessage2: the bytes of the fields vals of types kinds, or the error
RECURSIVE serializeMessage2(_, _)
\* serializeStat: the Stat preceded by its length, and by that length + 2 when
\* writeLength is set
serializeStat(val, writeLength) ==
    LET b == serializeMessage2(Fields("Stat"), val)
    IN  IF b.err # "nil" THEN b
        ELSE [err |-> "nil",
              b |-> (IF writeLength THEN writeUint((Len(b.b) + 2) % 65536, 2) ELSE <<>>)
                    \o writeUint(Len(b.b) % 65536, 2) \o b.b]

serializeMessage2(kinds, vals) ==
    IF kinds = <<>> THEN [err |-> "nil", b |-> <<>>]
    ELSE LET kind == Head(kinds)
             c == Head(vals)
             qids[i \in 0..Len(c)] ==
                 IF i = 0 THEN <<>>
                 ELSE qids[i - 1] \o serializeMessage2(Fields("Qid"), c[i]).b
             f == CASE kind \in Uints -> [err |-> "nil", b |-> writeUint(c, Width(kind))]
                    [] kind = "string" -> [err |-> "nil", b |-> writeString(c)]
                    [] kind = "[]Qid" ->
                         [err |-> "nil", b |-> writeUint(Len(c) % 65536, 2) \o qids[Len(c)]]
                    [] kind = "[]byte" -> [err |-> "nil", b |-> writeUint(Len(c), 4) \o c]
                    [] kind = "Stat" -> serializeStat(c, TRUE)
                    [] kind = "Qid" -> serializeMessage2(Fields("Qid"), c)
                    [] OTHER -> [err |-> "unknown field type", b |-> <<>>]
             rest == serializeMessage2(Tail(kinds), Tail(vals))
         IN  IF f.err # "nil" THEN f
             ELSE IF rest.err # "nil" THEN rest
             ELSE [err |-> "nil", b |-> f.b \o rest.b]

RTypes == {"Rversion", "Rauth", "Rattach", "Rerror", "Rflush", "Rwalk", "Ropen", "Rcreate",
           "Rread", "Rwrite", "Rclunk", "Rremove", "Rstat", "Rwstat"}

\* getRMessageType that also knows the T-messages
getRMessageType_AnyMessage(t) == IF t \in DOMAIN MessageType THEN MessageType[t] ELSE 0

\* getRMessageType: the type number of an R-message, 0 for any other value
getRMessageType(t) == IF t \in RTypes THEN MessageType[t] ELSE 0

\* SerializeMessage that leaves the four bytes of the size out of the size
SerializeMessage_SizeOfPayload(value) ==
    LET mtype == getRMessageType(TypeOf(value))
        b == serializeMessage2(Fields(TypeOf(value)), FieldsOf(value))
    IN  IF mtype = 0 THEN [err |-> "bad message type", w |-> <<>>]
        ELSE IF b.err # "nil" THEN [err |-> b.err, w |-> <<>>]
        ELSE [err |-> "nil",
              w |-> writeUint(Len(b.b) + 1, 4) \o writeUint(mtype, 1) \o b.b]

\* SerializeMessage: the error it returns and the bytes it writes to w
SerializeMessage(value) ==
    LET mtype == getRMessageType(TypeOf(value))
        b == serializeMessage2(Fields(TypeOf(value)), FieldsOf(value))
    IN  IF mtype = 0 THEN [err |-> "bad message type", w |-> <<>>]
        ELSE IF b.err # "nil" THEN [err |-> b.err, w |-> <<>>]
        ELSE [err |-> "nil",
              w |-> writeUint(Len(b.b) + 5, 4) \o writeUint(mtype, 1) \o b.b]

NoMsg == <<"nil", <<>>>>

\* the number the bytes bs spell, least significant byte first
RECURSIVE fromLittleEndian(_)
fromLittleEndian(bs) == IF bs = <<>> THEN 0 ELSE Head(bs) + 256 * fromLittleEndian(Tail(bs))

\* the number the bytes bs spell, most significant byte first
RECURSIVE fromBigEndian(_)
fromBigEndian(bs) ==
    IF bs = <<>> THEN 0 ELSE bs[Len(bs)] + 256 * fromBigEndian(SubSeq(bs, 1, Len(bs) - 1))

\* io.ReadFull of size bytes from the reader holding b: the error, the bytes
\* read and the bytes left in the reader
readBuff(b, size) ==
    IF size = 0 THEN [err |-> "nil", v |-> <<>>, rest |-> b]
    ELSE IF b = <<>> THEN [err |-> "EOF", v |-> <<>>, rest |-> <<>>]
    ELSE IF Len(b) < size THEN [err |-> "ErrUnexpectedEOF", v |-> <<>>, rest |-> <<>>]
    ELSE [err |-> "nil", v |-> SubSeq(b, 1, size), rest |-> SubSeq(b, size + 1, Len(b))]

\* readUint that reads the bytes most significant first
readUint_BigEndian(b, w) ==
    LET r == readBuff(b, w)
    IN  IF r.err # "nil" THEN [r EXCEPT !.v = 0] ELSE [r EXCEPT !.v = fromBigEndian(r.v)]

\* readUint[K]: binary.Read of a w-byte little-endian unsigned integer
readUint(b, w) ==
    LET r == readBuff(b, w)
    IN  IF r.err # "nil" THEN [r EXCEPT !.v = 0] ELSE [r EXCEPT !.v = fromLittleEndian(r.v)]

\* readString: a uint16 length, then that many bytes
readString(b) ==
    LET strSize == readUint(b, 2)
    IN  IF strSize.err # "nil" THEN [strSize EXCEPT !.v = <<>>]
        ELSE readBuff(strSize.rest, strSize.v)

\* the []string case of deserializeMessage3: a uint16 count, then the strings
RECURSIVE readStrings(_, _)
readStrings(b, count) ==
    IF count = 0 THEN [err |-> "nil", v |-> <<>>, rest |-> b]
    ELSE LET str == readString(b)
             more == readStrings(str.rest, count - 1)
         IN  IF str.err # "nil" THEN str
             ELSE IF more.err # "nil" THEN more
             ELSE [more EXCEPT !.v = <<str.v>> \o @]

\* a []byte field of a T-message: a uint32 length, then that many bytes
deserializeBytes(b) ==
    LET count == readUint(b, 4)
    IN  IF count.err # "nil" THEN [count EXCEPT !.v = <<>>]
        ELSE readBuff(count.rest, count.v)

\* deserializeMessage3: the fields of types kinds read from the reader holding b
RECURSIVE deserializeMessage3(_, _)
\* the Stat of a Twstat: the two uint16 lengths that wrap it, then its fields
deserializeStat(b) ==
    LET outer == readUint(b, 2)
        inner == readUint(outer.rest, 2)
    IN  IF outer.err # "nil" THEN [outer EXCEPT !.v = <<>>]
        ELSE IF inner.err # "nil" THEN [inner EXCEPT !.v = <<>>]
        ELSE deserializeMessage3(Fields("Stat"), inner.rest)

deserializeMessage3(kinds, b) ==
    IF kinds = <<>> THEN [err |-> "nil", v |-> <<>>, rest |-> b]
    ELSE LET kind == Head(kinds)
             count == readUint(b, 2)
             f == CASE kind = "Qid" -> deserializeMessage3(Fields("Qid"), b)
                    [] kind = "Stat" -> deserializeStat(b)
                    [] kind \in Uints -> readUint(b, Width(kind))
                    [] kind = "string" -> readString(b)
                    [] kind = "[]string" ->
                         IF count.err # "nil" THEN [count EXCEPT !.v = <<>>]
                         ELSE readStrings(count.rest, count.v)
                    [] kind = "[]byte" -> deserializeBytes(b)
                    [] OTHER -> [err |-> "unknown field type", v |-> <<>>, rest |-> b]
             more == deserializeMessage3(Tail(kinds), f.rest)
         IN  IF f.err # "nil" THEN [f EXCEPT !.v = <<>>]
             ELSE IF more.err # "nil" THEN more
             ELSE [more EXCEPT !.v = <<f.v>> \o @]

\* the cases of the type switch of DeserializeMessage
TTypes == {"Tauth", "Tattach", "Tclunk", "Tcreate", "Tflush", "Topen", "Tread", "Tremove",
           "Tstat", "Tversion", "Twalk", "Twrite", "Twstat"}

\* DeserializeMessage on the stream `in`: every outcome the call can have, each
\* with the error and message returned, the number n of bytes taken from the
\* stream and the panic that ended the call, if one did.  A size below 4 makes
\* size-4 wrap to 2^32-4+size, more than the stream holds: make either fails or
\* io.ReadFull reads the stream to its end.
DeserializeMessage(in) ==
    LET size == readUint(in, 4)
        body == size.rest
        short == [err |-> IF body = <<>> THEN "EOF" ELSE "ErrUnexpectedEOF",
                  msg |-> NoMsg, n |-> Len(in), panic |-> ""]
        b == SubSeq(body, 1, size.v - 4)
        types == {t \in TTypes : MessageType[t] = b[1]}
        t == CHOOSE x \in types : TRUE
        d == deserializeMessage3(Fields(t), Tail(b))
    IN  IF size.err # "nil"
        THEN {[err |-> size.err, msg |-> NoMsg, n |-> Len(in), panic |-> ""]}
        ELSE IF size.v < 4
        THEN {short, [err |-> "nil", msg |-> NoMsg, n |-> 4, panic |-> "out of memory"]}
        ELSE IF Len(body) < size.v - 4 THEN {short}
        ELSE IF size.v = 4
        THEN {[err |-> "nil", msg |-> NoMsg, n |-> 4,
               panic |-> "slice bounds out of range [1:0]"]}
        ELSE IF types = {}
        THEN {[err |-> "unknown message type", msg |-> NoMsg, n |-> size.v, panic |-> ""]}
        ELSE {[err |-> d.err, msg |-> <<t, d.v>>, n |-> size.v, panic |-> ""]}

----------------------------------------------------------------------------
\* Messages.  Every request is a record of the same shape; the fields a
\* message type does not have keep their zero value.

NoReq == [type |-> "none", tag |-> 0, fid |-> 0, afid |-> 0, newfid |-> 0, nwname |-> <<>>,
          name |-> "", perm |-> 0, mode |-> 0, msize |-> 0, version |-> "",
          offset |-> 0, count |-> 0]

Tversion(tag, msize, version) ==
    [NoReq EXCEPT !.type = "Tversion", !.tag = tag, !.msize = msize, !.version = version]
Tauth(tag, afid) == [NoReq EXCEPT !.type = "Tauth", !.tag = tag, !.afid = afid]
Tattach(tag, fid) == [NoReq EXCEPT !.type = "Tattach", !.tag = tag, !.fid = fid]
Tflush(tag) == [NoReq EXCEPT !.type = "Tflush", !.tag = tag]
Twalk(tag, fid, newfid, nwname) ==
    [NoReq EXCEPT !.type = "Twalk", !.tag = tag, !.fid = fid, !.newfid = newfid,
                  !.nwname = nwname]
Topen(tag, fid, mode) ==
    [NoReq EXCEPT !.type = "Topen", !.tag = tag, !.fid = fid, !.mode = mode]
Tcreate(tag, fid, name, perm) ==
    [NoReq EXCEPT !.type = "Tcreate", !.tag = tag, !.fid = fid, !.name = name,
                  !.perm = perm, !.mode = ORDWR]
Tread(tag, fid, offset, count) ==
    [NoReq EXCEPT !.type = "Tread", !.tag = tag, !.fid = fid, !.offset = offset,
                  !.count = count]
Twrite(tag, fid) == [NoReq EXCEPT !.type = "Twrite", !.tag = tag, !.fid = fid]
Tclunk(tag, fid) == [NoReq EXCEPT !.type = "Tclunk", !.tag = tag, !.fid = fid]
Tremove(tag, fid) == [NoReq EXCEPT !.type = "Tremove", !.tag = tag, !.fid = fid]
Tstat(tag, fid) == [NoReq EXCEPT !.type = "Tstat", !.tag = tag, !.fid = fid]
Twstat(tag, fid) == [NoReq EXCEPT !.type = "Twstat", !.tag = tag, !.fid = fid]

NoReply == [type |-> "none", tag |-> 0, ename |-> "", msize |-> 0, version |-> "",
            qid |-> NoQid, nwqid |-> <<>>, data |-> <<>>]

Rversion(tag, msize, version) ==
    [NoReply EXCEPT !.type = "Rversion", !.tag = tag, !.msize = msize, !.version = version]
Rerror(tag, ename) == [NoReply EXCEPT !.type = "Rerror", !.tag = tag, !.ename = ename]
Rattach(tag, qid) == [NoReply EXCEPT !.type = "Rattach", !.tag = tag, !.qid = qid]
Rflush(tag) == [NoReply EXCEPT !.type = "Rflush", !.tag = tag]
Rwalk(tag, nwqid) == [NoReply EXCEPT !.type = "Rwalk", !.tag = tag, !.nwqid = nwqid]
Ropen(tag, qid) == [NoReply EXCEPT !.type = "Ropen", !.tag = tag, !.qid = qid]
Rcreate(tag, qid) == [NoReply EXCEPT !.type = "Rcreate", !.tag = tag, !.qid = qid]
Rread(tag, data) == [NoReply EXCEPT !.type = "Rread", !.tag = tag, !.data = data]
Rwrite(tag) == [NoReply EXCEPT !.type = "Rwrite", !.tag = tag]
Rclunk(tag) == [NoReply EXCEPT !.type = "Rclunk", !.tag = tag]
Rremove(tag) == [NoReply EXCEPT !.type = "Rremove", !.tag = tag]
Rstat(tag, qid) == [NoReply EXCEPT !.type = "Rstat", !.tag = tag, !.qid = qid]
Rwstat(tag) == [NoReply EXCEPT !.type = "Rwstat", !.tag = tag]

----------------------------------------------------------------------------
\* The session: fid table.

\* getFid without the `ok` test: an unknown fid reads as the map's zero value
getFid_NoOkTest(fid) ==
    IF fid \in DOMAIN fids
    THEN [err |-> "nil", path |-> fids[fid].path, file |-> fids[fid].file]
    ELSE [err |-> "nil", path |-> <<>>, file |-> 0]

getFid(fid) ==
    IF fid \in DOMAIN fids
    THEN [err |-> "nil", path |-> fids[fid].path, file |-> fids[fid].file]
    ELSE [err |-> "ErrInvalidFid", path |-> <<>>, file |-> 0]

setFid(t, fid, p, file) ==
    [x \in DOMAIN t \cup {fid} |-> IF x = fid THEN [path |-> p, file |-> file] ELSE t[x]]

deleteFid(t, fid) == [x \in DOMAIN t \ {fid} |-> t[x]]

\* clean that closes nothing
clean_NoClose(fl) == fl

\* session.clean: Close on the file of every fid that has one
clean(fl) ==
    [h \in DOMAIN fl |->
        [fl[h] EXCEPT !.closeCalls =
            min(@ + Cardinality({f \in DOMAIN fids : fids[f].file = h}), MaxCloseCalls)]]

----------------------------------------------------------------------------
\* The handlers.  Each yields the error it returns, the reply it sends when
\* it returns nil, and the session and provider state it leaves behind.

Same == [err |-> "nil", reply |-> NoReply, fids |-> fids, files |-> files,
         osfs |-> osfs, receivedVersion |-> receivedVersion, maxsize |-> maxsize]

Fail(e) == [Same EXCEPT !.err = e]

\* handleVersion that echoes the client's msize without the cap
handleVersion_NoCap(m) ==
    LET ms == m.msize
    IN  IF m.version # ProtocolVersion
        THEN [Same EXCEPT !.maxsize = ms, !.reply = Rversion(m.tag, ms, "unknown")]
        ELSE [Same EXCEPT !.maxsize = ms, !.receivedVersion = TRUE,
                          !.reply = Rversion(m.tag, ms, ProtocolVersion)]

handleVersion(m) ==
    LET ms == min(m.msize, MaximumMsgSize)
    IN  IF m.version # ProtocolVersion
        THEN [Same EXCEPT !.maxsize = ms, !.reply = Rversion(m.tag, ms, "unknown")]
        ELSE [Same EXCEPT !.maxsize = ms, !.receivedVersion = TRUE,
                          !.reply = Rversion(m.tag, ms, ProtocolVersion)]

\* handleAuth that also installs the afid
handleAuth_InstallsAfid(m) ==
    [Same EXCEPT !.fids = setFid(fids, m.afid, <<>>, 0),
                 !.reply = Rerror(m.tag, ENoAuthRequiredStr)]

handleAuth(m) == [Same EXCEPT !.reply = Rerror(m.tag, ENoAuthRequiredStr)]

\* handleAttach that makes the fid before it stats the root
handleAttach_SetFidFirst(m) ==
    LET st == Stat(osfs, <<>>)
    IN  IF st.err # "nil" THEN [Fail(st.err) EXCEPT !.fids = setFid(fids, m.fid, <<>>, 0)]
        ELSE [Same EXCEPT !.fids = setFid(fids, m.fid, <<>>, 0),
                          !.reply = Rattach(m.tag, st.qid)]

handleAttach(m) ==
    LET st == Stat(osfs, <<>>)
    IN  IF st.err # "nil" THEN Fail(st.err)
        ELSE [Same EXCEPT !.fids = setFid(fids, m.fid, <<>>, 0),
                          !.reply = Rattach(m.tag, st.qid)]

handleClunk(m) ==
    LET g == getFid(m.fid)
    IN  IF g.err # "nil" THEN Fail(g.err)
        ELSE [Same EXCEPT !.files = IF g.file # 0 THEN Close(files, g.file) ELSE files,
                          !.fids = deleteFid(fids, m.fid),
                          !.reply = Rclunk(m.tag)]

\* handleCreate that moves the fid to the new path before it creates the file
handleCreate_SetFidFirst(m) ==
    LET isDir == HasBit(m.perm, DMDIR)
        g == getFid(m.fid)
        fullPath == pJoin(g.path, m.name)
        c == IF isDir THEN CreateDir(osfs, fullPath) ELSE CreateFile(osfs, fullPath)
        o == Open(c.osfs, fullPath, ORDWR)
    IN  IF g.err # "nil" THEN Fail(g.err)
        ELSE IF c.err # "nil"
             THEN [Fail(c.err) EXCEPT !.fids = setFid(fids, m.fid, fullPath, g.file)]
        ELSE IF o.err # "nil" THEN [Fail(o.err) EXCEPT !.osfs = c.osfs]
        ELSE [Same EXCEPT !.osfs = c.osfs,
                          !.files = Append(files, Handle(o.file)),
                          !.fids = setFid(fids, m.fid, fullPath, Len(files) + 1),
                          !.reply = Rcreate(0, Qid(o.file))]

handleCreate(m) ==
    LET isDir == HasBit(m.perm, DMDIR)
        g == getFid(m.fid)
        fullPath == pJoin(g.path, m.name)
        c == IF isDir THEN CreateDir(osfs, fullPath) ELSE CreateFile(osfs, fullPath)
        o == Open(c.osfs, fullPath, ORDWR)
    IN  IF g.err # "nil" THEN Fail(g.err)
        ELSE IF c.err # "nil" THEN Fail(c.err)
        ELSE IF o.err # "nil" THEN [Fail(o.err) EXCEPT !.osfs = c.osfs]
        ELSE [Same EXCEPT !.osfs = c.osfs,
                          !.files = Append(files, Handle(o.file)),
                          !.fids = setFid(fids, m.fid, fullPath, Len(files) + 1),
                          !.reply = Rcreate(0, Qid(o.file))]

\* handleFlush that returns nil without sending, as it did while it was a stub
handleFlush_Stub(m) == Same

handleFlush(m) == [Same EXCEPT !.reply = Rflush(m.tag)]

\* handleOpen that drops the fid's file when Open fails
handleOpen_ForgetsOnFailure(m) ==
    LET g == getFid(m.fid)
        o == Open(osfs, g.path, m.mode)
    IN  IF g.err # "nil" THEN Fail(g.err)
        ELSE IF o.err # "nil" THEN [Fail(o.err) EXCEPT !.fids = setFid(fids, m.fid, g.path, 0)]
        ELSE [Same EXCEPT !.files = Append(files, Handle(o.file)),
                          !.fids = setFid(fids, m.fid, g.path, Len(files) + 1),
                          !.reply = Ropen(m.tag, Qid(o.file))]

handleOpen(m) ==
    LET g == getFid(m.fid)
        o == Open(osfs, g.path, m.mode)
    IN  IF g.err # "nil" THEN Fail(g.err)
        ELSE IF o.err # "nil" THEN Fail(o.err)
        ELSE [Same EXCEPT !.files = Append(files, Handle(o.file)),
                          !.fids = setFid(fids, m.fid, g.path, Len(files) + 1),
                          !.reply = Ropen(m.tag, Qid(o.file))]

handleReadFile(m, file) ==
    LET e == Read(files, file)
    IN  IF e # "nil" THEN Fail(e) ELSE [Same EXCEPT !.reply = Rread(m.tag, <<>>)]

\* the number of bytes Stat.Serialize writes for a Stat with the name n (Uid
\* and Gid are "?", Muid is "")
StatSize ==
    [n \in {".", "..", "a", "s"} |->
        Len(serializeStat(<<0, 0, <<0, 0, 0>>, 0, 0, 0, 0, [i \in 1..Len(n) |-> 0],
                            <<63>>, <<63>>, <<>>>>, FALSE).b)]

\* Stat.Serialize: its i-th byte is kept as <<Name, Qid, i>>, the i-th byte of
\* the record of the Stat with that name and Qid
StatSerialize(st) == [i \in 1..StatSize[st.name] |-> <<st.name, st.qid, i>>]

RECURSIVE SerializeAll(_)
SerializeAll(stats) ==
    IF stats = <<>> THEN <<>> ELSE StatSerialize(Head(stats)) \o SerializeAll(Tail(stats))

\* the bytes of the buffer from offset up to offset + count or to its end, and
\* no bytes when offset is not below its length
Slice(bytes, offset, count) ==
    IF offset < Len(bytes)
    THEN SubSeq(bytes, offset + 1, min(offset + count, Len(bytes)))
    ELSE <<>>

\* handleReadDir that leaves the record of the parent out of the buffer
handleReadDir_NoDotDot(m, p) ==
    LET dotStat == Stat(osfs, pJoin(p, "."))
        r == ReadDir(osfs, p)
        bytes == StatSerialize([name |-> ".", qid |-> dotStat.qid]) \o SerializeAll(r.stats)
        data == Slice(bytes, m.offset, m.count)
    IN  IF dotStat.err # "nil" THEN Fail(dotStat.err)
        ELSE IF r.err # "nil" THEN Fail(r.err)
        ELSE [Same EXCEPT !.reply = Rread(m.tag, data)]

handleReadDir(m, p) ==
    LET dotStat == Stat(osfs, pJoin(p, "."))
        dotDotStat == Stat(osfs, pJoin(p, ".."))
        r == ReadDir(osfs, p)
        bytes == StatSerialize([name |-> ".", qid |-> dotStat.qid])
                 \o StatSerialize([name |-> "..", qid |-> dotDotStat.qid])
                 \o SerializeAll(r.stats)
        data == Slice(bytes, m.offset, m.count)
    IN  IF dotStat.err # "nil" THEN Fail(dotStat.err)
        ELSE IF dotDotStat.err # "nil" THEN Fail(dotDotStat.err)
        ELSE IF r.err # "nil" THEN Fail(r.err)
        ELSE [Same EXCEPT !.reply = Rread(m.tag, data)]

\* handleRead without the test for a fid that has no file
handleRead_NoNilTest(m) ==
    LET g == getFid(m.fid)
    IN  IF g.err # "nil" THEN Fail(g.err)
        ELSE IF g.file = 0 THEN [Same EXCEPT !.reply = Rread(m.tag, <<>>)]
        ELSE IF files[g.file].isDir THEN handleReadDir(m, g.path)
        ELSE handleReadFile(m, g.file)

handleRead(m) ==
    LET g == getFid(m.fid)
    IN  IF g.err # "nil" THEN Fail(g.err)
        ELSE IF g.file = 0 THEN Fail("ErrInvalidFid")
        ELSE IF files[g.file].isDir THEN handleReadDir(m, g.path)
        ELSE handleReadFile(m, g.file)

handleStat(m) ==
    LET g == getFid(m.fid)
        st == Stat(osfs, g.path)
    IN  IF g.err # "nil" THEN Fail(g.err)
        ELSE IF st.err # "nil" THEN Fail(st.err)
        ELSE [Same EXCEPT !.reply = Rstat(m.tag, st.qid)]

\* the path reached after the first i components of nwname
RECURSIVE WalkPath(_, _, _)
WalkPath(p, nwname, i) ==
    IF i = 0 THEN p ELSE pJoin(WalkPath(p, nwname, i - 1), nwname[i])

\* handleWalk that installs newfid where the walk stopped
handleWalk_Partial(m) ==
    LET g == getFid(m.fid)
        n == Len(m.nwname)
        st(i) == Stat(osfs, WalkPath(g.path, m.nwname, i))
        failed == {i \in 1..n : st(i).err # "nil"}
        first == CHOOSE i \in failed : \A j \in failed : i <= j
    IN  IF g.err # "nil" THEN Fail(g.err)
        ELSE IF n = 0
             THEN [Same EXCEPT !.fids = setFid(fids, m.newfid, g.path, g.file),
                               !.reply = Rwalk(m.tag, <<>>)]
        ELSE IF failed # {}
             THEN [Fail(st(first).err) EXCEPT
                      !.fids = setFid(fids, m.newfid, WalkPath(g.path, m.nwname, first - 1), 0)]
        ELSE [Same EXCEPT !.fids = setFid(fids, m.newfid, WalkPath(g.path, m.nwname, n), 0),
                          !.reply = Rwalk(m.tag, [i \in 1..n |-> st(i).qid])]

handleWalk(m) ==
    LET g == getFid(m.fid)
        n == Len(m.nwname)
        st(i) == Stat(osfs, WalkPath(g.path, m.nwname, i))
        failed == {i \in 1..n : st(i).err # "nil"}
        first == CHOOSE i \in failed : \A j \in failed : i <= j
    IN  IF g.err # "nil" THEN Fail(g.err)
        ELSE IF n = 0
             THEN [Same EXCEPT !.fids = setFid(fids, m.newfid, g.path, g.file),
                               !.reply = Rwalk(m.tag, <<>>)]
        ELSE IF failed # {} THEN Fail(st(first).err)
        ELSE [Same EXCEPT !.fids = setFid(fids, m.newfid, WalkPath(g.path, m.nwname, n), 0),
                          !.reply = Rwalk(m.tag, [i \in 1..n |-> st(i).qid])]

handleWrite(m) ==
    LET g == getFid(m.fid)
        e == Write(files, g.file)
    IN  IF g.err # "nil" THEN Fail(g.err)
        ELSE IF g.file = 0 THEN Fail("ErrInvalidFid")
        ELSE IF e # "nil" THEN Fail(e)
        ELSE [Same EXCEPT !.reply = Rwrite(m.tag)]

handleWstat(m) ==
    LET g == getFid(m.fid)
    IN  IF g.err # "nil" THEN Fail(g.err)
        ELSE [Same EXCEPT !.reply = Rwstat(m.tag)]

\* handleRemove that leaves the fid in the table
handleRemove_KeepFid(m) ==
    LET g == getFid(m.fid)
    IN  IF g.err # "nil" THEN Fail(g.err)
        ELSE [Same EXCEPT !.files = IF g.file # 0 THEN Close(files, g.file) ELSE files]

\* handleRemove up to the call of filesystem.Remove
handleRemove(m) ==
    LET g == getFid(m.fid)
    IN  IF g.err # "nil" THEN Fail(g.err)
        ELSE [Same EXCEPT !.files = IF g.file # 0 THEN Close(files, g.file) ELSE files,
                          !.fids = deleteFid(fids, m.fid)]

\* handleRemove from the call of filesystem.Remove on
handleRemove2(m, p) ==
    LET r == Remove(osfs, p)
    IN  IF r.err # "nil" THEN [Fail(r.err) EXCEPT !.osfs = r.osfs]
        ELSE [Same EXCEPT !.osfs = r.osfs, !.reply = Rremove(m.tag)]

\* handleNextMsg without the version gate
handleNextMsg_NoGate(m) ==
    CASE m.type = "Tauth" -> handleAuth(m)
      [] m.type = "Tattach" -> handleAttach(m)
      [] m.type = "Tclunk" -> handleClunk(m)
      [] m.type = "Tcreate" -> handleCreate(m)
      [] m.type = "Tflush" -> handleFlush(m)
      [] m.type = "Topen" -> handleOpen(m)
      [] m.type = "Tread" -> handleRead(m)
      [] m.type = "Tremove" -> handleRemove(m)
      [] m.type = "Tstat" -> handleStat(m)
      [] m.type = "Tversion" -> handleVersion(m)
      [] m.type = "Twalk" -> handleWalk(m)
      [] m.type = "Twrite" -> handleWrite(m)
      [] m.type = "Twstat" -> handleWstat(m)

\* handleNextMsg that negotiates again on a Tversion received after the gate opened
handleNextMsg_VersionAgain(m) ==
    IF ~receivedVersion
    THEN (IF m.type = "Tversion" THEN handleVersion(m) ELSE Fail("ErrUnexpectedMessage"))
    ELSE CASE m.type = "Tauth" -> handleAuth(m)
           [] m.type = "Tattach" -> handleAttach(m)
           [] m.type = "Tclunk" -> handleClunk(m)
           [] m.type = "Tcreate" -> handleCreate(m)
           [] m.type = "Tflush" -> handleFlush(m)
           [] m.type = "Topen" -> handleOpen(m)
           [] m.type = "Tread" -> handleRead(m)
           [] m.type = "Tremove" -> handleRemove(m)
           [] m.type = "Tstat" -> handleStat(m)
           [] m.type = "Tversion" -> handleVersion(m)
           [] m.type = "Twalk" -> handleWalk(m)
           [] m.type = "Twrite" -> handleWrite(m)
           [] m.type = "Twstat" -> handleWstat(m)

\* the version gate and the type switch of handleNextMsg
handleNextMsg(m) ==
    IF ~receivedVersion
    THEN (IF m.type = "Tversion" THEN handleVersion(m) ELSE Fail("ErrUnexpectedMessage"))
    ELSE CASE m.type = "Tauth" -> handleAuth(m)
           [] m.type = "Tattach" -> handleAttach(m)
           [] m.type = "Tclunk" -> handleClunk(m)
           [] m.type = "Tcreate" -> handleCreate(m)
           [] m.type = "Tflush" -> handleFlush(m)
           [] m.type = "Topen" -> handleOpen(m)
           [] m.type = "Tread" -> handleRead(m)
           [] m.type = "Tremove" -> handleRemove(m)
           [] m.type = "Tstat" -> handleStat(m)
           [] m.type = "Tversion" -> Fail("ErrUnexpectedMessage")
           [] m.type = "Twalk" -> handleWalk(m)
           [] m.type = "Twrite" -> handleWrite(m)
           [] m.type = "Twstat" -> handleWstat(m)

\* the error switch without its cases for ErrAlreadyExists and ErrDirectoryNotEmpty
ErrorName_ThreeCases(e) ==
    CASE e = "ErrIOError" -> EIOErrorStr
      [] e = "ErrDoesNotExist" -> ENoSuchFileOrDirectoryStr
      [] e = "ErrInvalidFid" -> EBadMessageStr
      [] OTHER -> ""

\* the error switch of handleNextMsg: the ename sent for err, "" when err is returned
ErrorName(e) ==
    CASE e = "ErrIOError" -> EIOErrorStr
      [] e = "ErrDoesNotExist" -> ENoSuchFileOrDirectoryStr
      [] e = "ErrInvalidFid" -> EBadMessageStr
      [] e = "ErrAlreadyExists" -> EAlreadyExistsStr
      [] e = "ErrDirectoryNotEmpty" -> EDirNotEmptyStr
      [] OTHER -> ""

----------------------------------------------------------------------------
\* session.loop

\* the state a handler leaves behind
Apply(r) ==
    /\ fids' = r.fids
    /\ files' = r.files
    /\ osfs' = r.osfs
    /\ receivedVersion' = r.receivedVersion
    /\ maxsize' = r.maxsize
    /\ UNCHANGED <<basePath, elsewhere>>

\* the model's bounds: no more than MaxHandles localFiles, no OS path longer than MaxDepth
InBounds(r) ==
    /\ Len(r.files) <= MaxHandles
    /\ \A p \in DOMAIN r.osfs : Len(p) <= MaxDepth

\* s.send of the handler's reply, or the error switch of handleNextMsg and its
\* s.sendError; sendOk tells whether the write to the connection succeeds
Return(m, r, sendOk) ==
    LET sends == (r.err = "nil" /\ r.reply # NoReply) \/ ErrorName(r.err) # ""
        msg == IF r.err = "nil" THEN r.reply ELSE Rerror(m.tag, ErrorName(r.err))
    IN  IF sends /\ ~sendOk
        THEN /\ out' = <<>>
             /\ herr' = (IF r.err = "nil" THEN "transport" ELSE r.err)
             /\ err' = "transport"
             /\ pc' = "end"
        ELSE IF sends \/ r.err = "nil"
        THEN /\ out' = (IF sends THEN <<msg>> ELSE <<>>)
             /\ herr' = r.err
             /\ err' = "nil"
             /\ pc' = "loop"
        ELSE /\ out' = <<>>
             /\ herr' = r.err
             /\ err' = r.err
             /\ pc' = "end"

\* one iteration of the loop: DeserializeMessage yields m, handleNextMsg handles it
Step(m, sendOk) ==
    /\ pc = "read"
    /\ LET r == handleNextMsg(m)
       IN  /\ InBounds(r)
           /\ Apply(r)
           /\ req' = m
           /\ path' = <<>>
           /\ Return(m, r, sendOk)

RecvTversion ==
    \E tag \in Tags, msize \in Msizes, version \in Versions, sendOk \in BOOLEAN :
        Step(Tversion(tag, msize, version), sendOk)

RecvTauth ==
    \E tag \in Tags, afid \in Fids, sendOk \in BOOLEAN : Step(Tauth(tag, afid), sendOk)

RecvTattach == \E tag \in Tags, fid \in Fids, sendOk \in BOOLEAN : Step(Tattach(tag, fid), sendOk)

RecvTflush == \E tag \in Tags, sendOk \in BOOLEAN : Step(Tflush(tag), sendOk)

RecvTwalk ==
    \E tag \in Tags, fid \in Fids, newfid \in Fids, nwname \in SeqsUpTo(Names, MaxWalk),
       sendOk \in BOOLEAN :
        Step(Twalk(tag, fid, newfid, nwname), sendOk)

RecvTopen ==
    \E tag \in Tags, fid \in Fids, mode \in Modes, sendOk \in BOOLEAN :
        Step(Topen(tag, fid, mode), sendOk)

RecvTcreate ==
    \E tag \in Tags, fid \in Fids, name \in Names, perm \in Perms, sendOk \in BOOLEAN :
        Step(Tcreate(tag, fid, name, perm), sendOk)

RecvTread ==
    \E tag \in Tags, fid \in Fids, sendOk \in BOOLEAN :
        Step(Tread(tag, fid, 0, MaximumMsgSize), sendOk)

RecvTwrite == \E tag \in Tags, fid \in Fids, sendOk \in BOOLEAN : Step(Twrite(tag, fid), sendOk)

RecvTclunk == \E tag \in Tags, fid \in Fids, sendOk \in BOOLEAN : Step(Tclunk(tag, fid), sendOk)

RecvTstat == \E tag \in Tags, fid \in Fids, sendOk \in BOOLEAN : Step(Tstat(tag, fid), sendOk)

RecvTwstat == \E tag \in Tags, fid \in Fids, sendOk \in BOOLEAN : Step(Twstat(tag, fid), sendOk)

\* Tremove: the gate, getFid, Close and deleteFid; with a valid fid the handler
\* goes on to call filesystem.Remove in RemoveFile
RecvTremove ==
    \E tag \in Tags, fid \in Fids, sendOk \in BOOLEAN :
        LET m == Tremove(tag, fid)
            r == handleNextMsg(m)
        IN  /\ pc = "read"
            /\ Apply(r)
            /\ req' = m
            /\ IF r.err = "nil"
               THEN /\ path' = getFid(fid).path
                    /\ pc' = "remove"
                    /\ out' = <<>>
                    /\ herr' = "nil"
                    /\ err' = "nil"
               ELSE /\ path' = <<>>
                    /\ Return(m, r, sendOk)

\* the rest of handleRemove: filesystem.Remove and the reply
RemoveFile ==
    \E sendOk \in BOOLEAN :
        /\ pc = "remove"
        /\ LET r == handleRemove2(req, path)
           IN  /\ Apply(r)
               /\ Return(req, r, sendOk)
        /\ path' = <<>>
        /\ UNCHANGED req

\* handleNextMsg returned nil: the for loop starts its next iteration, with a
\* fresh msg
LoopAgain ==
    /\ pc = "loop"
    /\ pc' = "read"
    /\ req' = NoReq
    /\ herr' = "nil"
    /\ out' = <<>>
    /\ UNCHANGED <<basePath, osfs, receivedVersion, maxsize, fids, files, path, err,
                   elsewhere>>

\* DeserializeMessage fails: io.EOF at a frame boundary
RecvEOF ==
    /\ pc = "read"
    /\ pc' = "end"
    /\ err' = "EOF"
    /\ UNCHANGED <<basePath, osfs, receivedVersion, maxsize, fids, files, req, path, herr,
                   out, elsewhere>>

\* DeserializeMessage fails: a frame that cannot be decoded, or a read error
RecvBadMessage ==
    /\ pc = "read"
    /\ pc' = "end"
    /\ err' = "decode"
    /\ UNCHANGED <<basePath, osfs, receivedVersion, maxsize, fids, files, req, path, herr,
                   out, elsewhere>>

\* end: s.clean()
Clean ==
    /\ pc = "end"
    /\ pc' = "cleaned"
    /\ files' = clean(files)
    /\ UNCHANGED <<basePath, osfs, receivedVersion, maxsize, fids, req, path, herr, err,
                   out, elsewhere>>

\* s.conn.Close()
ConnClose ==
    /\ pc = "cleaned"
    /\ pc' = "closed"
    /\ UNCHANGED <<basePath, osfs, receivedVersion, maxsize, fids, files, req, path, herr,
                   err, out, elsewhere>>

\* newSession that hands every session the fid map of the first one
newSession_SharedFids(tabs) ==
    [session |-> [receivedVersion |-> FALSE, maxsize |-> 0, fids |-> 1, pc |-> "read"],
     tables |-> IF tabs = <<>> THEN <<(<<>>)>> ELSE tabs]

\* newSession: a session struct with a fresh, empty fid map
newSession(tabs) ==
    [session |-> [receivedVersion |-> FALSE, maxsize |-> 0, fids |-> Len(tabs) + 1,
                  pc |-> "read"],
     tables |-> Append(tabs, <<>>)]

\* what the operating system's tree holds when the server starts: below "/" a
\* directory with a file in it, below "/s" a directory of the same name, below
\* "/t" a file
InitialTree(base) ==
    IF base = <<>>
    THEN (<<>> :> "dir") @@ (<<"a">> :> "dir") @@ (<<"a", "a">> :> "file")
    ELSE IF base = <<"s">>
    THEN (<<>> :> "dir") @@ (base :> "dir") @@ (base \o base :> "dir")
    ELSE (<<>> :> "dir") @@ (base :> "dir") @@ (Append(base, "a") :> "file")

\* NewLocalFilesystem and newSession
Init ==
    /\ basePath \in BasePaths
    /\ osfs = InitialTree(basePath)
    /\ receivedVersion = FALSE
    /\ maxsize = 0
    /\ fids = <<>>
    /\ files = <<>>
    /\ pc = "read"
    /\ req = NoReq
    /\ path = <<>>
    /\ herr = "nil"
    /\ err = "nil"
    /\ out = <<>>
    /\ qidMutex = 0
    /\ qidCounter = 0
    /\ qidMap = <<>>
    /\ qcall = [c \in Callers |-> NoCall]
    /\ qidReturned = {}
    /\ sessions = <<newSession(<<>>).session>>
    /\ tables = newSession(<<>>).tables
    /\ cur = 1
    /\ cpc = "idle"
    /\ cin = <<>>
    /\ cread = 0
    /\ cgot = <<>>
    /\ cmsg = NoMsg
    /\ cout = <<>>
    /\ cerr = "nil"
    /\ ccall = [c \in Callers |-> NoCreate]

Next ==
    \/ RecvTversion
    \/ RecvTauth
    \/ RecvTattach
    \/ RecvTflush
    \/ RecvTwalk
    \/ RecvTopen
    \/ RecvTcreate
    \/ RecvTread
    \/ RecvTwrite
    \/ RecvTclunk
    \/ RecvTremove
    \/ RemoveFile
    \/ RecvTstat
    \/ RecvTwstat
    \/ LoopAgain
    \/ RecvEOF
    \/ RecvBadMessage
    \/ Clean
    \/ ConnClose

Spec == Init /\ [][Next]_vars

----------------------------------------------------------------------------
\* One session reading directories: Tread with offsets and counts around the
\* record boundaries of a listing and far beyond it, after a Tversion whose
\* msize is below or at MaximumMsgSize.  (Counts stop at 2^30 so that
\* offset + count stays within the model checker's integers.)

ReadOffsets == {0, 1, 52, 105, 157, 200, 1073741824}

ReadCounts == {0, 1, 52, 53, 8192, 1073741824}

ReadMsizes == {128, 8192}

ReadTversion ==
    \E tag \in Tags, msize \in ReadMsizes, sendOk \in BOOLEAN :
        Step(Tversion(tag, msize, ProtocolVersion), sendOk)

ReadTread ==
    \E tag \in Tags, fid \in Fids, offset \in ReadOffsets, count \in ReadCounts,
       sendOk \in BOOLEAN :
        Step(Tread(tag, fid, offset, count), sendOk)

ReadNext ==
    \/ ReadTversion
    \/ RecvTattach
    \/ RecvTwalk
    \/ RecvTopen
    \/ RecvTcreate
    \/ ReadTread
    \/ RecvTclunk
    \/ LoopAgain
    \/ RecvEOF
    \/ Clean
    \/ ConnClose

ReadSpec == Init /\ [][ReadNext]_vars

----------------------------------------------------------------------------
\* The goroutines of several sessions calling qidPath of the one provider.

QidCall == \E c \in Callers, p \in QidKeys : qidPathCall(c, p) /\ UNCHANGED outsideRegistry

QidLock == \E c \in Callers : qidMutexLock(c) /\ UNCHANGED outsideRegistry

QidLookup == \E c \in Callers : qidPathLookup(c) /\ UNCHANGED outsideRegistry

QidInsert == \E c \in Callers : qidPathInsert(c) /\ UNCHANGED outsideRegistry

QidIncrement == \E c \in Callers : qidPathIncrement(c) /\ UNCHANGED outsideRegistry

QidReadBack == \E c \in Callers : qidPathReadBack(c) /\ UNCHANGED outsideRegistry

QidUnlock == \E c \in Callers : qidMutexUnlock(c) /\ UNCHANGED outsideRegistry

RegistryNext ==
    \/ QidCall
    \/ QidLock
    \/ QidLookup
    \/ QidInsert
    \/ QidIncrement
    \/ QidReadBack
    \/ QidUnlock

RegistrySpec == Init /\ [][RegistryNext]_vars

----------------------------------------------------------------------------
\* Server.AcceptLoop: one goroutine per accepted connection, each running the
\* loop of its own session against the one provider.  The session variables
\* above hold the state of session `cur`; the other goroutines wait between two
\* iterations of their loop, or have returned, so their loop locals are dead.

\* the fid map session s sees
FidsOf(s) == IF sessions[s].fids = sessions[cur].fids THEN fids ELSE tables[sessions[s].fids]

\* conn accepted: go newSession(s, conn).loop()
Accept ==
    /\ Len(sessions) < MaxSessions
    /\ LET n == newSession(tables)
       IN  /\ sessions' = Append(sessions, n.session)
           /\ tables' = n.tables
    /\ UNCHANGED <<sessionVars, registryVars, codecVars, createVars, cur>>

\* the scheduler runs the goroutine of session s in place of that of session cur
Switch ==
    \E s \in DOMAIN sessions :
        /\ s # cur
        /\ pc \in {"read", "closed"}
        /\ LET saved == [tables EXCEPT ![sessions[cur].fids] = fids]
           IN  /\ tables' = saved
               /\ sessions' = [sessions EXCEPT ![cur].receivedVersion = receivedVersion,
                                               ![cur].maxsize = maxsize,
                                               ![cur].pc = pc]
               /\ fids' = saved[sessions[s].fids]
        /\ cur' = s
        /\ receivedVersion' = sessions[s].receivedVersion
        /\ maxsize' = sessions[s].maxsize
        /\ pc' = sessions[s].pc
        /\ req' = NoReq
        /\ herr' = "nil"
        /\ err' = "nil"
        /\ out' = <<>>
        /\ UNCHANGED <<basePath, osfs, files, path, registryVars, codecVars, createVars>>

ServerNext ==
    \/ Accept
    \/ Switch
    \/ RecvTversion
    \/ RecvTattach
    \/ RecvTclunk
    \/ RecvTstat
    \/ LoopAgain
    \/ RecvEOF
    \/ Clean
    \/ ConnClose

ServerSpec == Init /\ [][ServerNext]_vars

----------------------------------------------------------------------------
\* Tcreate in the goroutines of several sessions on one provider.  A run of
\* handleCreate is a sequence of steps of its goroutine, one for each call of
\* the operating system; nothing orders the steps of two goroutines.

\* the directories the fid of a Tcreate stands for, and the names it carries
CreateDirs == {<<>>, <<"a">>}

CreateNames == {"a", "s"}

\* handleCreate up to the call of CreateDir or CreateFile
handleCreateCall(c, dir, name, perm) ==
    /\ ccall[c].pc = "idle"
    /\ ccall' = [ccall EXCEPT ![c] = [NoCreate EXCEPT !.pc = "stat",
                                                      !.path = pJoin(dir, name),
                                                      !.isDir = HasBit(perm, DMDIR)]]
    /\ UNCHANGED osfs

\* CreateDir / CreateFile: the os.Stat of the existence check
createStat(c) ==
    /\ ccall[c].pc = "stat"
    /\ ccall' = [ccall EXCEPT ![c] =
                    IF osStat(osfs, normalizePath(ccall[c].path)).errno # "ENOENT"
                    THEN [@ EXCEPT !.pc = "done", !.err = "ErrAlreadyExists"]
                    ELSE [@ EXCEPT !.pc = "make"]]
    /\ UNCHANGED osfs

\* CreateDir / CreateFile: os.Mkdir or os.Create after the check has passed
createMake(c) ==
    /\ ccall[c].pc = "make"
    /\ LET full == normalizePath(ccall[c].path)
           r == IF ccall[c].isDir THEN osMkdir(osfs, full) ELSE osCreate(osfs, full)
       IN  /\ osfs' = r.fs
           /\ ccall' = [ccall EXCEPT ![c] =
                           IF r.errno # "nil"
                           THEN [@ EXCEPT !.pc = "done", !.err = "ErrIOError"]
                           ELSE [@ EXCEPT !.pc = "open", !.truncated = r.truncated]]

\* handleCreate after the create: Open, and Rcreate when it succeeds
createOpen(c) ==
    /\ ccall[c].pc = "open"
    /\ ccall' = [ccall EXCEPT ![c].pc = "done",
                              ![c].err = Open(osfs, ccall[c].path, ORDWR).err]
    /\ UNCHANGED osfs

outsideCreate == <<basePath, receivedVersion, maxsize, fids, files, pc, req, path, herr,
                   err, out, registryVars, serverVars, codecVars>>

TcreateCall ==
    \E c \in Callers, dir \in CreateDirs, name \in CreateNames, perm \in Perms :
        handleCreateCall(c, dir, name, perm) /\ UNCHANGED outsideCreate

TcreateStat == \E c \in Callers : createStat(c) /\ UNCHANGED outsideCreate

TcreateMake == \E c \in Callers : createMake(c) /\ UNCHANGED outsideCreate

TcreateOpen == \E c \in Callers : createOpen(c) /\ UNCHANGED outsideCreate

CreateNext ==
    \/ TcreateCall
    \/ TcreateStat
    \/ TcreateMake
    \/ TcreateOpen

CreateSpec == Init /\ [][CreateNext]_vars

----------------------------------------------------------------------------
\* The callers of the codec: streams handed to DeserializeMessage and values
\* handed to SerializeMessage.

\* "uname", "aname", "test", "a"
StrUname == <<117, 110, 97, 109, 101>>
StrAname == <<97, 110, 97, 109, 101>>
StrTest == <<116, 101, 115, 116>>
StrA == <<97>>

TagSamples == {85, 4660}
U8Samples == {0, 18}
U32Samples == {1, 16909060}
U64Samples == {0, 2147483647}
StrSamples == {<<>>, StrUname}
QidSamples == {<<0, 0, 0>>, <<128, 16909060, 7>>}
DataSamples == {<<>>, <<1, 2, 3>>}
StatSamples ==
    {<<0, 0, <<0, 0, 0>>, 0, 0, 0, 0, <<>>, <<>>, <<>>, <<>>>>,
     <<1, 2, <<128, 3, 4>>, 493, 1664224954, 1664224954, 2147483647, StrA, <<63>>, <<63>>,
       <<>>>>}

Msg(t, v) == <<t, v>>

TSamples ==
    {Msg("Tauth", <<tag, afid, uname, StrAname>>) :
        tag \in TagSamples, afid \in U32Samples, uname \in StrSamples}
    \cup {Msg("Tattach", <<tag, fid, 1, uname, aname>>) :
        tag \in TagSamples, fid \in U32Samples, uname \in StrSamples, aname \in StrSamples}
    \cup {Msg(t, <<tag, fid>>) :
        t \in {"Tclunk", "Tremove", "Tstat"}, tag \in TagSamples, fid \in U32Samples}
    \cup {Msg("Tcreate", <<tag, 1, name, perm, mode>>) :
        tag \in TagSamples, name \in StrSamples, perm \in U32Samples, mode \in U8Samples}
    \cup {Msg("Tflush", <<tag, oldtag>>) : tag \in TagSamples, oldtag \in TagSamples}
    \cup {Msg("Topen", <<tag, fid, mode>>) :
        tag \in TagSamples, fid \in U32Samples, mode \in U8Samples}
    \cup {Msg("Tread", <<tag, fid, offset, count>>) :
        tag \in TagSamples, fid \in U32Samples, offset \in U64Samples, count \in U32Samples}
    \cup {Msg("Tversion", <<tag, msize, version>>) :
        tag \in TagSamples, msize \in U32Samples, version \in StrSamples}
    \cup {Msg("Twalk", <<tag, 1, newfid, nwname>>) :
        tag \in TagSamples, newfid \in U32Samples,
        nwname \in {<<>>, <<StrA>>, <<StrUname, <<>>, StrA>>}}
    \cup {Msg("Twrite", <<tag, 1, offset, data>>) :
        tag \in TagSamples, offset \in U64Samples, data \in DataSamples}
    \cup {Msg("Twstat", <<tag, fid, stat>>) :
        tag \in TagSamples, fid \in U32Samples, stat \in StatSamples}

RSamples ==
    {Msg(t, <<tag, msize, version>>) :
        t \in {"Rversion"}, tag \in TagSamples, msize \in U32Samples,
        version \in StrSamples \cup {StrTest}}
    \cup {Msg("Rversion", <<117, 21, StrTest>>)}
    \cup {Msg(t, <<tag, qid>>) :
        t \in {"Rauth", "Rattach"}, tag \in TagSamples, qid \in QidSamples}
    \cup {Msg("Rerror", <<tag, ename>>) : tag \in TagSamples, ename \in StrSamples}
    \cup {Msg(t, <<tag>>) :
        t \in {"Rflush", "Rclunk", "Rremove", "Rwstat"}, tag \in TagSamples}
    \cup {Msg("Rwalk", <<tag, nwqid>>) :
        tag \in TagSamples,
        nwqid \in {<<>>} \cup {<<q>> : q \in QidSamples}
                  \cup {<<q, r>> : q \in QidSamples, r \in QidSamples}}
    \cup {Msg(t, <<tag, qid, iounit>>) :
        t \in {"Ropen", "Rcreate"}, tag \in TagSamples, qid \in QidSamples,
        iounit \in {0, 16909060}}
    \cup {Msg("Rread", <<tag, data>>) : tag \in TagSamples, data \in DataSamples}
    \cup {Msg("Rwrite", <<tag, count>>) : tag \in TagSamples, count \in U32Samples}
    \cup {Msg("Rstat", <<tag, stat>>) : tag \in TagSamples, stat \in StatSamples}

\* values SerializeMessage is handed that are not pointers to an R-message
OtherValues == {Msg("Qid", q) : q \in QidSamples} \cup {Msg("Stat", st) : st \in StatSamples}

\* the 9P2000 wire layout: integers least significant byte first, a string as
\* a 2-byte length and its bytes, a []byte as a 4-byte length and its bytes, an
\* array as a 2-byte count and its elements, a Stat in a message as its length
\* plus 2, its length and its fields
RECURSIVE ByteAt(_, _)
ByteAt(v, i) == IF i = 1 THEN v % 256 ELSE ByteAt(v \div 256, i - 1)

WireUint(v, w) == [i \in 1..w |-> ByteAt(v, i)]

WireString(str) == WireUint(Len(str), 2) \o str

RECURSIVE Wire(_, _)
Wire(kinds, vals) ==
    IF kinds = <<>> THEN <<>>
    ELSE LET kind == Head(kinds)
             c == Head(vals)
             elems[i \in 0..Len(c)] ==
                 IF i = 0 THEN <<>>
                 ELSE elems[i - 1] \o (IF kind = "[]string" THEN WireString(c[i])
                                       ELSE Wire(Fields("Qid"), c[i]))
             stat == Wire(Fields("Stat"), c)
         IN  (CASE kind \in Uints -> WireUint(c, Width(kind))
                [] kind = "string" -> WireString(c)
                [] kind = "[]byte" -> WireUint(Len(c), 4) \o c
                [] kind \in {"[]string", "[]Qid"} -> WireUint(Len(c), 2) \o elems[Len(c)]
                [] kind = "Qid" -> Wire(Fields("Qid"), c)
                [] kind = "Stat" ->
                     WireUint(Len(stat) + 2, 2) \o WireUint(Len(stat), 2) \o stat)
             \o Wire(Tail(kinds), Tail(vals))

\* the frame of message m: size[4] type[1] tag[2] fields
Frame(m) ==
    LET payload == Wire(Fields(TypeOf(m)), FieldsOf(m))
    IN  WireUint(4 + 1 + Len(payload), 4) \o <<MessageType[TypeOf(m)]>> \o payload

\* 19000000665500010000000500756E616D650500616E616D65
TauthHex ==
    <<25, 0, 0, 0, 102, 85, 0, 1, 0, 0, 0, 5, 0, 117, 110, 97, 109, 101, 5, 0, 97, 110,
    97, 109, 101>>

\* 1100000065750015000000040074657374
RversionHex ==
    <<17, 0, 0, 0, 101, 117, 0, 21, 0, 0, 0, 4, 0, 116, 101, 115, 116>>

\* a Twstat frame: tag 0, fid 1, the Stat wrapped in the lengths 0x31 and 0x2F
TwstatHex ==
    <<62, 0, 0, 0, 126, 0, 0, 1, 0, 0, 0, 49, 0, 47, 0, 1, 0, 2, 0, 0, 0, 128, 3, 0, 0,
    0, 4, 0, 0, 0, 0, 0, 0, 0, 237, 1, 0, 0, 186, 14, 50, 99, 186, 14, 50, 99, 255, 255,
    255, 127, 0, 0, 0, 0, 0, 0, 0, 0, 0, 0, 0, 0>>

WellFormedFrames == {Frame(m) : m \in TSamples} \cup {TauthHex, TwstatHex}

\* frames cut short, frames whose size field is below 5, and frames whose size
\* field cuts the message off in the middle of its fields
TruncatedInputs ==
    UNION {{SubSeq(f, 1, n) : n \in 0..(Len(f) - 1)} :
              f \in {TauthHex, TwstatHex, Frame(Msg("Twalk", <<85, 1, 1, <<StrA>>>>))}}
    \cup {WireUint(size, 4) \o tail :
            size \in 0..4, tail \in {<<>>, <<120>>, <<120, 85, 0, 1, 0, 0, 0>>}}
    \cup {WireUint(size, 4) \o SubSeq(TauthHex, 5, size) : size \in 5..24}

\* frames that are whole, as long as their size field says, but malformed: the
\* Tauth frame with its size field cutting the fields off, a Tversion whose
\* string is shorter than its length field says, and unknown type bytes
MalformedFrames ==
    {WireUint(size, 4) \o SubSeq(TauthHex, 5, size) : size \in 5..24}
    \cup {<<13, 0, 0, 0, 100, 85, 0, 0, 32, 0, 0, 5, 0>>,
          <<15, 0, 0, 0, 100, 85, 0, 0, 32, 0, 0, 5, 0, 57, 80>>,
          <<5, 0, 0, 0, 106>>, <<7, 0, 0, 0, 255, 85, 0>>}

DecodeInputs ==
    WellFormedFrames
    \cup MalformedFrames
    \cup {f \o Frame(Msg("Tclunk", <<4660, 1>>)) : f \in WellFormedFrames}
    \cup TruncatedInputs
    \cup {<<5, 0, 0, 0, 101>>, <<5, 0, 0, 0, 106>>}

EncodeInputs == RSamples \cup TSamples \cup OtherValues

\* a caller hands DeserializeMessage a stream
CallDeserialize ==
    /\ cpc = "idle"
    /\ cin' \in DecodeInputs
    /\ cpc' = "decode"
    /\ UNCHANGED <<cread, cgot, cmsg, cout, cerr, outsideCodec>>

\* DeserializeMessage is called on what is left of the stream, as session.loop
\* does until a call fails
Deserialize ==
    /\ cpc = "decode"
    /\ cgot # <<>> => (cgot[Len(cgot)].err = "nil" /\ cgot[Len(cgot)].panic = "")
    /\ \E r \in DeserializeMessage(SubSeq(cin, cread + 1, Len(cin))) :
          /\ cgot' = Append(cgot, r)
          /\ cread' = cread + r.n
    /\ UNCHANGED <<cpc, cin, cmsg, cout, cerr, outsideCodec>>

\* a caller hands SerializeMessage a value
CallSerialize ==
    /\ cpc = "idle"
    /\ cmsg' \in EncodeInputs
    /\ cpc' = "encode"
    /\ UNCHANGED <<cin, cread, cgot, cout, cerr, outsideCodec>>

\* SerializeMessage(w, value)
Serialize ==
    /\ cpc = "encode"
    /\ LET r == SerializeMessage(cmsg)
       IN  cout' = r.w /\ cerr' = r.err
    /\ cpc' = "encoded"
    /\ UNCHANGED <<cin, cread, cgot, cmsg, outsideCodec>>

\* the bytes SerializeMessage wrote are handed to DeserializeMessage
ReadBack ==
    /\ cpc = "encoded"
    /\ cerr = "nil"
    /\ cin' = cout
    /\ cpc' = "decode"
    /\ UNCHANGED <<cread, cgot, cmsg, cout, cerr, outsideCodec>>

CodecNext ==
    \/ CallDeserialize
    \/ Deserialize
    \/ CallSerialize
    \/ Serialize
    \/ ReadBack

CodecSpec == Init /\ [][CodecNext]_vars

----------------------------------------------------------------------------
\* Properties.

Ended == pc \in {"end", "cleaned", "closed"}

\* the request types that name a fid to look up
FidRequests == {"Twalk", "Topen", "Tcreate", "Tread", "Twrite", "Tclunk", "Tremove",
                "Tstat", "Twstat"}

\* the errors that are answered with an Rerror, and the ename of each
RecoverableErrors == {"ErrIOError", "ErrDoesNotExist", "ErrInvalidFid", "ErrAlreadyExists",
                      "ErrDirectoryNotEmpty"}

EnameOf(e) ==
    CASE e = "ErrIOError" -> "i/o error"
      [] e = "ErrDoesNotExist" -> "file does not exist"
      [] e = "ErrInvalidFid" -> "protocol botch"
      [] e = "ErrAlreadyExists" -> "file or directory already exists"
      [] e = "ErrDirectoryNotEmpty" -> "directory is not empty"

\* C1: while receivedVersion is false, a message other than Tversion ends the
\* session with ErrUnexpectedMessage and no reply, and every reply written is an
\* Rversion.
C1_GateClosed ==
    ~receivedVersion =>
        /\ (req.type \notin {"none", "Tversion"} =>
                out = <<>> /\ herr = "ErrUnexpectedMessage"
                /\ err = "ErrUnexpectedMessage" /\ Ended)
        /\ \A i \in 1..Len(out) : out[i].type = "Rversion"

C1_Witness ==
    ~receivedVersion /\ req.type = "Tattach" /\ pc = "closed" /\ out = <<>>

\* C2: every reply carries the tag of the request that caused it.
C2_ReplyTagIsRequestTag ==
    \A i \in 1..Len(out) : out[i].tag = req.tag

\* C3: no two distinct fids of the fid table refer to the same open handle.
C3_NoSharedHandle ==
    \A f, g \in DOMAIN fids :
        (f # g /\ fids[f].file # 0) => fids[f].file # fids[g].file

\* C4: once the session has terminated, every handle that was installed in the
\* fid table has been closed exactly once.
C4_ClosedExactlyOnce ==
    pc = "closed" => \A h \in DOMAIN files : files[h].closeCalls = 1

\* C5: when the connection is closed, on whichever path the loop was left, every
\* handle held in the fid table has been closed.
C5_ClosedBeforeConnClose ==
    pc \in {"cleaned", "closed"} =>
        \A f \in DOMAIN fids : fids[f].file # 0 => files[fids[f].file].closeCalls >= 1

C5_Witness ==
    pc = "closed" /\ err = "transport" /\ \E f \in DOMAIN fids : fids[f].file # 0

\* C6: a Twalk with a non-empty nwname on an existing fid either finds every
\* component, installs newfid at the final path with no handle and answers Rwalk
\* with len(nwname) Qids, or fails on a component, answers Rerror and leaves the
\* fid table as it was.  (A reply is missing only when the write to the
\* connection fails, which ends the session.)
C6_WalkAllOrNothing ==
    [][(pc = "read" /\ receivedVersion /\ req'.type = "Twalk" /\ req'.nwname # <<>>
        /\ req'.fid \in DOMAIN fids) =>
        LET m == req'
            n == Len(m.nwname)
            found == \A i \in 1..n :
                        Stat(osfs, WalkPath(fids[m.fid].path, m.nwname, i)).err = "nil"
        IN  /\ err' \in {"nil", "transport"}
            /\ err' = "transport" => out' = <<>>
            /\ IF found
               THEN /\ DOMAIN fids' = DOMAIN fids \cup {m.newfid}
                    /\ fids'[m.newfid] =
                          [path |-> WalkPath(fids[m.fid].path, m.nwname, n), file |-> 0]
                    /\ \A f \in DOMAIN fids \ {m.newfid} : fids'[f] = fids[f]
                    /\ err' = "nil" =>
                          /\ Len(out') = 1
                          /\ out'[1].type = "Rwalk"
                          /\ out'[1].tag = m.tag
                          /\ Len(out'[1].nwqid) = n
               ELSE /\ fids' = fids
                    /\ err' = "nil" =>
                          /\ Len(out') = 1
                          /\ out'[1].type = "Rerror"
                          /\ out'[1].tag = m.tag
                          /\ out'[1].ename \in {"i/o error", "file does not exist"}]_vars

C6_Witness ==
    /\ pc = "loop" /\ req.type = "Twalk" /\ Len(req.nwname) = 2
    /\ herr = "ErrIOError" /\ Len(out) = 1 /\ out[1].type = "Rerror"
    /\ req.newfid \notin DOMAIN fids

\* C7: Tclunk of a fid closes its handle if it has one, removes the fid and
\* answers Rclunk; a request naming a fid that is not in the fid table is
\* answered with Rerror "protocol botch", leaves the fid table as it was and keeps
\* the session alive.
C7_UnknownFid ==
    [][/\ (pc = "read" /\ receivedVersion /\ req'.type \in FidRequests
           /\ req'.fid \notin DOMAIN fids) =>
              /\ fids' = fids
              /\ files' = files
              /\ herr' = "ErrInvalidFid"
              /\ IF err' = "nil"
                 THEN out' = <<Rerror(req'.tag, "protocol botch")>> /\ pc' = "loop"
                 ELSE err' = "transport" /\ out' = <<>>
       /\ (pc = "read" /\ receivedVersion /\ req'.type = "Tclunk"
           /\ req'.fid \in DOMAIN fids) =>
              /\ DOMAIN fids' = DOMAIN fids \ {req'.fid}
              /\ \A f \in DOMAIN fids' : fids'[f] = fids[f]
              /\ \A h \in DOMAIN files :
                    files'[h].closeCalls =
                        IF h = fids[req'.fid].file
                        THEN min(files[h].closeCalls + 1, MaxCloseCalls)
                        ELSE files[h].closeCalls
              /\ IF err' = "nil"
                 THEN out' = <<Rclunk(req'.tag)>> /\ pc' = "loop"
                 ELSE err' = "transport" /\ out' = <<>>]_vars

C7_Witness ==
    /\ pc = "loop" /\ req.type = "Tread" /\ req.fid \notin DOMAIN fids
    /\ files # <<>> /\ files[1].closeCalls = 1
    /\ out = <<Rerror(req.tag, "protocol botch")>>

\* C8: Tremove on an existing fid closes its handle and removes the fid before
\* filesystem.Remove is called; the fid stays absent whether Remove succeeds
\* (Rremove) or fails (Rerror).
C8_RemoveDropsFid ==
    [][/\ (pc = "read" /\ receivedVersion /\ req'.type = "Tremove"
           /\ req'.fid \in DOMAIN fids) =>
              /\ pc' = "remove"
              /\ osfs' = osfs
              /\ path' = fids[req'.fid].path
              /\ DOMAIN fids' = DOMAIN fids \ {req'.fid}
              /\ \A f \in DOMAIN fids' : fids'[f] = fids[f]
              /\ fids[req'.fid].file # 0 => files'[fids[req'.fid].file].closeCalls >= 1
       /\ pc = "remove" =>
              /\ req.fid \notin DOMAIN fids
              /\ fids' = fids
              /\ files' = files
              /\ req' = req
              /\ IF err' # "nil" THEN err' = "transport" /\ out' = <<>>
                 ELSE IF herr' = "nil"
                 THEN /\ out' = <<Rremove(req.tag)>>
                      /\ normalizePath(path) \notin DOMAIN osfs'
                 ELSE /\ herr' \in {"ErrIOError", "ErrDirectoryNotEmpty"}
                      /\ out' = <<Rerror(req.tag, EnameOf(herr'))>>
                      /\ osfs' = osfs]_vars

C8_Witness ==
    /\ pc = "loop" /\ req.type = "Tremove" /\ herr = "ErrDirectoryNotEmpty"
    /\ req.fid \notin DOMAIN fids
    /\ files # <<>> /\ files[1].closeCalls = 1
    /\ out = <<Rerror(req.tag, "directory is not empty")>>

\* C9: a handler error among IOError, DoesNotExist, InvalidFid, AlreadyExists and
\* DirectoryNotEmpty is answered with exactly one Rerror that carries the
\* request's tag and the error's ename, and the session goes on; any other
\* error (ErrUnexpectedMessage, a failed write) ends the session with no reply.
C9_ErrorTranslation ==
    /\ herr \in RecoverableErrors =>
          IF err = "nil"
          THEN pc = "loop" /\ out = <<Rerror(req.tag, EnameOf(herr))>>
          ELSE err = "transport" /\ Ended /\ out = <<>>
    /\ herr \notin RecoverableErrors \cup {"nil"} =>
          herr \in {"ErrUnexpectedMessage", "transport"} /\ err = herr /\ Ended /\ out = <<>>

C9_Witness ==
    /\ pc = "loop" /\ herr = "ErrAlreadyExists" /\ req.type = "Tcreate"
    /\ out = <<Rerror(req.tag, "file or directory already exists")>>

\* C10: a request the session has handled and survived has exactly one reply
\* written before the loop reads again; no request has two replies, and a
\* request without a reply has ended the session.
C10_OneReplyPerRequest ==
    /\ Len(out) <= 1
    /\ pc = "loop" => req.type # "none" /\ Len(out) = 1
    /\ pc = "read" => req = NoReq /\ out = <<>>
    /\ (req.type # "none" /\ out = <<>>) => (Ended \/ pc = "remove")

C10_Witness ==
    pc = "loop" /\ req.type = "Tflush" /\ out = <<Rflush(req.tag)>>

\* C11: a Tversion handled while receivedVersion is false sets maxsize to the
\* smaller of the client's msize and 8192 and is answered with an Rversion that
\* carries it; with version "9P2000" the reply says "9P2000" and receivedVersion
\* becomes true, with any other version the reply says "unknown" and
\* receivedVersion stays false.  (The reply is missing only when the write to
\* the connection fails, which ends the session.)
C11_VersionNegotiation ==
    [][(pc = "read" /\ ~receivedVersion /\ req'.type = "Tversion") =>
        LET m == req'
            ms == IF m.msize <= 8192 THEN m.msize ELSE 8192
            known == m.version = "9P2000"
        IN  /\ maxsize' = ms
            /\ receivedVersion' = known
            /\ fids' = fids /\ files' = files
            /\ IF err' = "nil"
               THEN /\ pc' = "loop"
                    /\ out' = <<Rversion(m.tag, ms, IF known THEN "9P2000" ELSE "unknown")>>
               ELSE err' = "transport" /\ out' = <<>>]_vars

C11_Witness ==
    /\ pc = "loop" /\ req.type = "Tversion" /\ req.version # "9P2000"
    /\ req.msize > 8192 /\ ~receivedVersion /\ maxsize = 8192
    /\ out = <<Rversion(req.tag, 8192, "unknown")>>

\* C12: receivedVersion never goes back to false; a Tversion received when it
\* is true returns ErrUnexpectedMessage: nothing is written (no Rversion, no
\* Rerror), maxsize and the fid table stay as they were, and the loop leaves
\* for clean and conn.Close, after which nothing more is written.
C12_SecondVersionIsFatal ==
    [][/\ receivedVersion => receivedVersion'
       /\ (pc = "read" /\ receivedVersion /\ req'.type = "Tversion") =>
              /\ herr' = "ErrUnexpectedMessage"
              /\ err' = "ErrUnexpectedMessage"
              /\ out' = <<>>
              /\ maxsize' = maxsize
              /\ fids' = fids
              /\ pc' = "end"
       /\ Ended => (Ended' /\ out' = out /\ maxsize' = maxsize)]_vars

C12_Witness ==
    /\ pc = "closed" /\ receivedVersion /\ req.type = "Tversion"
    /\ req.version = "9P2000" /\ req.msize = 16384 /\ maxsize = 4096
    /\ err = "ErrUnexpectedMessage" /\ out = <<>>

\* C13: a Tauth handled when receivedVersion is true is answered with
\* Rerror{tag of the request, "no authentication required"}; the fid table and
\* the open files stay as they were (the afid is not installed) and the loop
\* goes on.  (The reply is missing only when the write to the connection fails,
\* which ends the session.)
C13_AuthRefused ==
    [][(pc = "read" /\ receivedVersion /\ req'.type = "Tauth") =>
        /\ fids' = fids
        /\ files' = files
        /\ osfs' = osfs
        /\ IF err' = "nil"
           THEN /\ pc' = "loop"
                /\ out' = <<Rerror(req'.tag, "no authentication required")>>
           ELSE err' = "transport" /\ out' = <<>>]_vars

C13_Witness ==
    /\ pc = "loop" /\ req.type = "Tauth" /\ req.tag = 1
    /\ fids # <<>> /\ req.afid \notin DOMAIN fids
    /\ out = <<Rerror(1, "no authentication required")>>

\* C14: with qidPath called concurrently from several goroutines, an entry of
\* the registry, once made, is never removed or changed and the counter never
\* decreases; every call for the same key returns the same value and calls for
\* different keys return different values, also when the first lookups of two
\* keys, or of one key, run at the same time.
C14_QidPathStableAndUnique ==
    [][/\ \A k \in DOMAIN qidMap : k \in DOMAIN qidMap' /\ qidMap'[k] = qidMap[k]
       /\ qidCounter' >= qidCounter
       /\ \A r1, r2 \in qidReturned' : (r1[1] = r2[1]) <=> (r1[2] = r2[2])
       /\ \A r \in qidReturned' : r[1] \in DOMAIN qidMap' /\ qidMap'[r[1]] = r[2]
       /\ \A k1, k2 \in DOMAIN qidMap' :
             k1 # k2 => qidMap'[k1] # qidMap'[k2]]_vars

C14_Witness ==
    /\ qidReturned = {<<(<<"a">>), 0>>}
    /\ \E c, d \in Callers :
          /\ qcall[c].pc = "readback" /\ qcall[c].path = <<>>
          /\ qcall[d].pc = "lock" /\ qcall[d].path = <<"a", "a">>
          /\ qidMap[<<>>] = 1 /\ <<"a", "a">> \notin DOMAIN qidMap

\* C15: a request handled in one session leaves the fid map, receivedVersion
\* and maxsize of every other session as they were; a session that is scheduled
\* again finds its own fid map and version latch as it left them; and a request
\* of a session for a fid that only another session has created is answered
\* with "protocol botch".
C15_SessionsAreDisjoint ==
    [][/\ (cur' = cur /\ Len(sessions') = Len(sessions)) =>
              \A s \in DOMAIN sessions \ {cur} :
                  /\ FidsOf(s)' = FidsOf(s)
                  /\ sessions'[s] = sessions[s]
       /\ cur' # cur =>
              /\ fids' = tables[sessions[cur'].fids]
              /\ receivedVersion' = sessions[cur'].receivedVersion
              /\ maxsize' = sessions[cur'].maxsize
              /\ tables'[sessions'[cur].fids] = fids
       /\ \A s, t \in DOMAIN sessions' : s # t => sessions'[s].fids # sessions'[t].fids
       /\ (cur' = cur /\ pc = "read" /\ receivedVersion /\ req'.type \in FidRequests
           /\ req'.fid \notin DOMAIN fids
           /\ \E s \in DOMAIN sessions : req'.fid \in DOMAIN FidsOf(s)) =>
              /\ herr' = "ErrInvalidFid"
              /\ err' = "nil" => out' = <<Rerror(req'.tag, "protocol botch")>>]_vars

C15_Witness ==
    /\ Len(sessions) = 2 /\ cur = 2
    /\ sessions[1].receivedVersion /\ sessions[1].maxsize = 4096
    /\ receivedVersion /\ maxsize = 8192
    /\ 0 \in DOMAIN FidsOf(1) /\ 0 \notin DOMAIN fids /\ 1 \in DOMAIN fids
    /\ pc = "loop" /\ req.type = "Tstat" /\ req.fid = 0
    /\ out = <<Rerror(req.tag, "protocol botch")>>

\* C21: a Tread or Twrite that names a fid of the fid table that has no file
\* (made by Tattach or Twalk and never opened) is answered with Rerror
\* "protocol botch"; the fid table, the open files and the file tree stay as they
\* were and the loop goes on.  (The reply is missing only when the write to the
\* connection fails, which ends the session.)
C21_NoHandleNoIO ==
    [][(pc = "read" /\ receivedVersion /\ req'.type \in {"Tread", "Twrite"}
        /\ req'.fid \in DOMAIN fids /\ fids[req'.fid].file = 0) =>
        /\ fids' = fids
        /\ files' = files
        /\ osfs' = osfs
        /\ herr' = "ErrInvalidFid"
        /\ IF err' = "nil"
           THEN pc' = "loop" /\ out' = <<Rerror(req'.tag, "protocol botch")>>
           ELSE err' = "transport" /\ out' = <<>> /\ pc' = "end"]_vars

C21_Witness ==
    /\ pc = "loop" /\ req.type = "Twrite" /\ req.fid \in DOMAIN fids
    /\ fids[req.fid] = [path |-> <<"a">>, file |-> 0]
    /\ out = <<Rerror(req.tag, "protocol botch")>>

\* the record of the Stat with the name n and the Qid q: 2 bytes of size, 39 of
\* fixed fields, four strings with 2 bytes of length each: n, "?", "?" and ""
StatRecord(n, q) == [i \in 1..(51 + Len(n)) |-> <<n, q, i>>]

RECURSIVE StatRecords(_)
StatRecords(stats) ==
    IF stats = <<>> THEN <<>>
    ELSE StatRecord(Head(stats).name, Head(stats).qid) \o StatRecords(Tail(stats))

\* the listing of the directory P: ".", "..", then its entries
ListingOf(P) ==
    StatRecord(".", Stat(osfs, P).qid)
    \o StatRecord("..", Stat(osfs, IF P = <<>> THEN <<>> ELSE Parent(P)).qid)
    \o StatRecords(ReadDir(osfs, P).stats)

\* what successive Treads of `count` bytes, each at the offset the replies so
\* far add up to, return from offset `off` on while the directory stays as it is
RECURSIVE ReadOn(_, _, _)
ReadOn(P, off, count) ==
    LET d == handleReadDir(Tread(0, 0, off, count), P).reply.data
    IN  IF d = <<>> THEN <<>> ELSE d \o ReadOn(P, off + Len(d), count)

\* C22: the Rread that answers a Tread on an open directory fid at path P
\* carries buffer[offset .. min(offset+count, len(buffer))], nothing when offset
\* is at or past the end, where buffer is the record of P named ".", the record
\* of P's parent (the root's being the root) named "..", then the records of
\* P's entries in the order ReadDir gives them; while the directory stays as it
\* is, successive reads at offsets advanced by the lengths returned add up to
\* the buffer.
C22_ReadDirSlice ==
    [][(pc = "read" /\ receivedVersion /\ req'.type = "Tread"
        /\ req'.fid \in DOMAIN fids /\ fids[req'.fid].file # 0
        /\ files[fids[req'.fid].file].isDir /\ herr' = "nil" /\ err' = "nil") =>
        LET P == fids[req'.fid].path
            buffer == ListingOf(P)
            offset == req'.offset
            count == req'.count
            last == IF count >= Len(buffer) - offset THEN Len(buffer) ELSE offset + count
        IN  /\ Len(out') = 1
            /\ out'[1].type = "Rread"
            /\ out'[1].tag = req'.tag
            /\ IF offset >= Len(buffer) THEN out'[1].data = <<>>
               ELSE /\ Len(out'[1].data) = last - offset
                    /\ \A k \in 1..(last - offset) : out'[1].data[k] = buffer[offset + k]
            /\ \A c \in ReadCounts \ {0, 1} : ReadOn(P, 0, c) = buffer
            /\ fids' = fids /\ files' = files /\ osfs' = osfs]_vars

C22_Witness ==
    /\ pc = "loop" /\ req.type = "Tread" /\ req.offset = 52 /\ req.count = 53
    /\ basePath = <<>> /\ req.fid \in DOMAIN fids /\ fids[req.fid].path = <<"a">>
    /\ Len(out) = 1 /\ Len(out[1].data) = 53
    /\ out[1].data[1] = <<"..", [ftype |-> DMDIR, path |-> <<>>], 1>>
    /\ out[1].data[53] = <<"..", [ftype |-> DMDIR, path |-> <<>>], 53>>

C24_OpenReplacesHandle ==
    [][(pc = "read" /\ receivedVersion /\ req'.type = "Topen"
        /\ req'.fid \in DOMAIN fids) =>
        LET m == req'
            P == fids[m.fid].path
            osPath == basePath \o P
        IN  /\ err' \in {"nil", "transport"}
            /\ err' = "transport" => out' = <<>>
            /\ osfs' = osfs
            /\ IF osPath \in DOMAIN osfs
               THEN /\ DOMAIN fids' = DOMAIN fids
                    /\ \A f \in DOMAIN fids \ {m.fid} : fids'[f] = fids[f]
                    /\ fids'[m.fid] = [path |-> P, file |-> Len(files) + 1]
                    /\ Len(files') = Len(files) + 1
                    /\ \A h \in DOMAIN files : files'[h] = files[h]
                    /\ files'[Len(files')].isDir = (osfs[osPath] = "dir")
                    /\ files'[Len(files')].closeCalls = 0
                    /\ err' = "nil" =>
                          out' = <<Ropen(m.tag,
                                         [ftype |-> IF osfs[osPath] = "dir" THEN DMDIR ELSE 0,
                                          path |-> P])>>
               ELSE /\ fids' = fids
                    /\ files' = files
                    /\ herr' \in {"ErrDoesNotExist", "ErrIOError"}
                    /\ err' = "nil" => out' = <<Rerror(m.tag, EnameOf(herr'))>>]_vars

C24_Witness ==
    /\ pc = "loop" /\ req.type = "Topen" /\ herr = "ErrDoesNotExist"
    /\ req.fid \in DOMAIN fids /\ fids[req.fid] = [path |-> <<"a", "a">>, file |-> 1]
    /\ files[1].closeCalls = 0
    /\ out = <<Rerror(req.tag, "file does not exist")>>

\* C25: a Tattach handled when receivedVersion is true stats the root; when
\* that succeeds the fid table maps the request's fid to the root with no handle,
\* every other fid is as it was and Rattach carries the Qid of that Stat; when it
\* fails no fid is made and an Rerror is sent.  (The reply is missing only when
\* the write to the connection fails.)
C25_AttachRoot ==
    [][(pc = "read" /\ receivedVersion /\ req'.type = "Tattach") =>
        LET m == req'
            st == Stat(osfs, <<>>)
        IN  /\ err' \in {"nil", "transport"}
            /\ err' = "transport" => out' = <<>>
            /\ files' = files /\ osfs' = osfs
            /\ IF st.err = "nil"
               THEN /\ DOMAIN fids' = DOMAIN fids \cup {m.fid}
                    /\ fids'[m.fid] = [path |-> <<>>, file |-> 0]
                    /\ \A f \in DOMAIN fids \ {m.fid} : fids'[f] = fids[f]
                    /\ err' = "nil" => out' = <<Rattach(m.tag, st.qid)>>
               ELSE /\ fids' = fids
                    /\ herr' \in {"ErrDoesNotExist", "ErrIOError"}
                    /\ err' = "nil" => out' = <<Rerror(m.tag, EnameOf(herr'))>>]_vars

C25_Witness ==
    /\ pc = "loop" /\ req.type = "Tattach" /\ req.fid = 1
    /\ DOMAIN fids = {0, 1} /\ fids[1] = [path |-> <<>>, file |-> 0]
    /\ fids[0].path = <<"a">>
    /\ Len(out) = 1 /\ out[1].type = "Rattach" /\ out[1].qid.ftype = DMDIR

\* a Tattach whose Stat of the root fails
C25_WitnessFailure ==
    /\ pc = "loop" /\ req.type = "Tattach" /\ fids = <<>>
    /\ out = <<Rerror(req.tag, "file does not exist")>>

\* the access the two low bits of an open mode ask for
AccessOf(mode) ==
    CASE mode % 4 = 0 -> "O_RDONLY"
      [] mode % 4 = 1 -> "O_WRONLY"
      [] mode % 4 = 2 -> "O_RDWR"
      [] OTHER -> "O_RDONLY"

\* C26: Open of a regular file with any 8-bit mode opens it with the access of
\* mode & 3 (OREAD read-only, OWRITE write-only, ORDWR read-write) and truncates
\* exactly when bit 0x10 is set; a Topen with OWRITE or ORDWR leaves a handle on
\* which Write succeeds.
C26_OpenModeSelectsAccess ==
    [][(pc = "read" /\ receivedVersion /\ req'.type = "Topen" /\ herr' = "nil"
        /\ req'.fid \in DOMAIN fids /\ ~files'[Len(files')].isDir) =>
        LET P == fids[req'.fid].path
        IN  /\ files'[Len(files')].flag = AccessOf(req'.mode)
            /\ req'.mode \in {OWRITE, ORDWR} => Write(files', Len(files')) = "nil"
            /\ \A mode \in 0..255 :
                  /\ mode % 4 # 3 => Open(osfs, P, mode).file.flag = AccessOf(mode)
                  /\ Open(osfs, P, mode).file.trunc = ((mode \div 16) % 2 = 1)]_vars

\* the size of the frame of a reply: size[4] type[1] tag[2] and the fields
FrameSize(r) ==
    7 + CASE r.type = "Rversion" -> 4 + 2 + Len(r.version)
          [] r.type = "Rerror" -> 2 + Len(r.ename)
          [] r.type \in {"Rattach"} -> 13
          [] r.type \in {"Ropen", "Rcreate"} -> 13 + 4
          [] r.type = "Rwalk" -> 2 + 13 * Len(r.nwqid)
          [] r.type = "Rread" -> 4 + Len(r.data)
          [] r.type = "Rwrite" -> 4
          [] r.type \in {"Rflush", "Rclunk", "Rremove", "Rwstat"} -> 0

\* C27: once the version is negotiated, every reply the session writes is a
\* frame of at most maxsize = min(msize, 8192) bytes, an Rread included whatever
\* the count of the Tread.
C27_ReplyFitsMaxsize ==
    receivedVersion => \A i \in 1..Len(out) : FrameSize(out[i]) <= maxsize

\* C28: DeserializeMessage on a frame that is whole but malformed (an unknown
\* type byte, a string longer than what is left of the frame, fields missing)
\* fails with an error other than io.EOF, the error session.loop does not log;
\* io.EOF is returned only when the stream ends where a frame would begin.
C28_MalformedIsNotEof ==
    cgot # <<>> =>
        /\ cin \in MalformedFrames =>
              /\ cgot[1].panic = ""
              /\ cgot[1].err \notin {"nil", "EOF"}
        /\ \A i \in 1..Len(cgot) :
              cgot[i].err = "EOF" => (cgot[i].n = 0 /\ cread = Len(cin))

\* C29: for any base path, Stat, Open and the entry of ReadDir for the same
\* served path give the same Qid: the Qid of the Ropen of a fid at path P is the
\* Qid Stat gives for P (the last Qid of the Rwalk, or the Qid of the Rattach,
\* that made the fid) and the Qid of P's entry in the listing of its parent.
C29_OneQidPerPath ==
    [][(pc = "read" /\ receivedVersion /\ req'.type = "Topen"
        /\ req'.fid \in DOMAIN fids /\ herr' = "nil" /\ err' = "nil") =>
        LET P == fids[req'.fid].path
            entries == ReadDir(osfs, Parent(P)).stats
        IN  /\ out'[1].type = "Ropen"
            /\ Stat(osfs, P).err = "nil"
            /\ Stat(osfs, P).qid = out'[1].qid
            /\ P # <<>> => \E i \in 1..Len(entries) : entries[i].qid = out'[1].qid]_vars

\* C30: while the session is live, the regular file of every handle that a fid
\* of the fid table refers to is open: no handle in the table has been closed.
C30_TableHandlesAreOpen ==
    ~Ended =>
        \A f \in DOMAIN fids :
            (fids[f].file # 0 /\ ~files[fids[f].file].isDir) =>
                files[fids[f].file].closeCalls = 0

\* C31: when two sessions have run Tcreate for one path that did not exist and
\* whose parent directory did, a session that got Rcreate leaves the other with
\* Rerror "file or directory already exists", and no create has truncated a
\* file that was already there.
C31_OneCreateWins ==
    \A c \in Callers, d \in Callers :
        (/\ c # d
         /\ ccall[c].pc = "done" /\ ccall[d].pc = "done"
         /\ ccall[c].path = ccall[d].path
         /\ normalizePath(ccall[c].path) \notin DOMAIN InitialTree(basePath)
         /\ Create(InitialTree(basePath), ccall[c].path, "file").err = "nil")
        => /\ ccall[c].err = "nil" =>
                EnameOf(ccall[d].err) = "file or directory already exists"
           /\ ~ccall[c].truncated

\* the size field of a stream of at least four bytes
SizeField(in) == CHOOSE k \in 0..255 : WireUint(k, 4) = SubSeq(in, 1, 4)

\* C16: DeserializeMessage on a truncated or undersized frame, a size field
\* below 5 included, returns an Eof or bad-message error: it does not panic
\* and takes no more bytes from the stream than the size field declares.
C16_TruncatedInputFails ==
    (cmsg = NoMsg /\ cin \in TruncatedInputs /\ cgot # <<>>) =>
        /\ cgot[1].panic = ""
        /\ cgot[1].err \in {"EOF", "ErrUnexpectedEOF", "unknown message type"}
        /\ Len(cin) >= 4 =>
              cgot[1].n <= (IF SizeField(cin) < 4 THEN 4 ELSE SizeField(cin))

\* C17: DeserializeMessage on the bytes SerializeMessage wrote for an
\* R-message succeeds and returns that message.
C17_RoundTrip ==
    (TypeOf(cmsg) \in RTypes /\ cpc = "decode" /\ cgot # <<>>) =>
        /\ cgot[1].err = "nil"
        /\ cgot[1].panic = ""
        /\ cgot[1].msg = cmsg

\* C18: SerializeMessage called with a T-message, or with any value that is
\* not one of the 14 R-messages, returns "bad message type" and writes nothing.
C18_EncodeRefusesT ==
    (cpc = "encoded" /\ TypeOf(cmsg) \notin RTypes) =>
        cerr = "bad message type" /\ cout = <<>>

C18_Witness ==
    /\ cpc = "encoded" /\ cmsg = Msg("Tversion", <<85, 1, StrUname>>)
    /\ cerr = "bad message type" /\ cout = <<>>

\* C19: for an R-message SerializeMessage writes the frame of the wire layout:
\* four bytes holding the length of the whole frame, least significant first,
\* then the type number, the tag and the fields in declaration order;
\* Rversion{tag 0x75, msize 0x15, "test"} is written as the 17 bytes
\* 1100000065750015000000040074657374.
C19_FrameLayout ==
    (cpc = "encoded" /\ TypeOf(cmsg) \in RTypes) =>
        /\ cerr = "nil"
        /\ SubSeq(cout, 1, 4) = WireUint(Len(cout), 4)
        /\ cout[5] = MessageType[TypeOf(cmsg)]
        /\ cout[5] % 2 = 1
        /\ SubSeq(cout, 6, 7) = WireUint(FieldsOf(cmsg)[1], 2)
        /\ cout = Frame(cmsg)
        /\ cmsg = Msg("Rversion", <<117, 21, StrTest>>) => cout = RversionHex

C19_Witness ==
    /\ cpc = "encoded" /\ cmsg = Msg("Rversion", <<117, 21, StrTest>>)
    /\ cerr = "nil" /\ cout = RversionHex /\ Len(cout) = 17

====
